---- MODULE Spec2Model ----
(***************************************************************************)
(* Client side of Aerie Part Management: the blob-URL cache and the        *)
(* de-duplicated artifact requests (core/api/partsApi.js), the rate-limited*)
(* authentication check (core/auth/auth.js) and the multi-step wipe dialog *)
(* (features/parts/wipeActions.js).                                        *)
(*                                                                         *)
(* JavaScript runs every handler to its first await without interleaving,  *)
(* so each action below is one such run-to-completion segment.             *)
(* Strings that the code inspects character by character are sequences of  *)
(* one-character strings.  Blob URLs are the naturals 1, 2, ... in the     *)
(* order URL.createObjectURL hands them out; 0 stands for null.            *)
(***************************************************************************)
EXTENDS Integers, Sequences, FiniteSets, TLC

\* ---------------------------------------------------------------- constants

MAX_CACHE_SIZE == 50

CACHE_EXPIRY_MS == 1800000

AUTH_CHECK_COOLDOWN == 2000

\* ------------------------------------------------------------------- bounds

\* Capacity of the BlobUrlCache instance under analysis (the constructor's
\* maxSize argument; the shipped instance passes MAX_CACHE_SIZE).
maxSize == 2

\* Part ids used as cache keys: 1..NumKeys.
NumKeys == 2

\* Blob URLs the browser hands out in one run.
MaxUrls == 3

\* Clock advances in one run of the cache specifications.
MaxTicks == 2

\* Request promises alive at one time.
MaxRequests == 2

Keys == 1..NumKeys

\* The keys the cache is driven with on its own: one more than it can hold.
CacheKeys == 1..(maxSize + 1)

\* The four request functions share no state (each has its own pending map and
\* only the model requests use the cache), so a run exercises one of them,
\* chosen at the start.
RequestFns == {"model", "view", "manifest", "file"}

NoResult == [fn |-> "none", key |-> 0, via |-> "none", p |-> 0, url |-> 0]

NoPromise == [fn |-> "none", key |-> 0, state |-> "none", phase |-> "none",
              fetched |-> FALSE]

ViewIndexes == {0, 1}

\* getPartViewBlobUrl: cacheKey = `${partId}-${viewIndex}`
ViewKey(partId, viewIndex) == <<partId, viewIndex>>

ViewKeys == {ViewKey(k, v) : k \in Keys, v \in ViewIndexes}

\* Date.now() when the page starts: far enough from the epoch that the first
\* authentication check never sees a cooldown against lastAuthCheckTime = 0.
StartNow == AUTH_CHECK_COOLDOWN

expiryMs == CACHE_EXPIRY_MS

\* The clock moves by a millisecond or by a whole TTL, so that ages just
\* below, at and just above the TTL all occur.
CacheTickSteps == {1, expiryMs}

\* checkAuthStatus calls made in one run.
MaxAuthCalls == 3

\* The clock of the authentication model runs for this many cooldowns.
MaxCooldowns == 2

AuthCallIds == 1..MaxAuthCalls

\* The clock of the authentication model moves in halves of the cooldown.
AuthTickStep == AUTH_CHECK_COOLDOWN \div 2

AuthHorizon == StartNow + MaxCooldowns * AUTH_CHECK_COOLDOWN

\* A checkAuthStatus call that has not been made yet.
IdleCall == [pc |-> "idle", delayed |-> FALSE, wake |-> 0, sentAt |-> 0,
             outcome |-> "none", result |-> FALSE]

\* Times the wipe modal is opened in one run.
MaxOpens == 2

\* Wipe requests sent in one run.
MaxWipeRequests == 2

\* What the user may type into the confirmation input.
ConfirmValues == {"", "DELETE", "delete"}

\* The password input holds a sequence of characters, so that trim() can act.

PasswordChars == {" ", "p"}

PasswordValues == {<<>>} \cup {<<a>> : a \in PasswordChars}
                      \cup {<<a, b>> : a \in PasswordChars, b \in PasswordChars}

\* No wipe request has been sent.
NoWipe == [password |-> <<>>]

\* No executeWipe has ended; otherwise whether its request succeeded and
\* what it called after the request, in order.
NoWipeOutcome == [ok |-> FALSE, effects |-> <<>>]

\* API calls awaiting their response at one time.
MaxApiCalls == 2

\* Parts in the list of the category a run looks at.
MaxParts == 3

\* The tabs whose lists are modelled: one rendered like review, hand, misc
\* and completed (filter only) and the CNC tab (priority, filter, sort).
Categories == {"review", "cnc"}

\* sortState of a category that is not sorted; key "null" stands for null.
NoSort == [key |-> "null", direction |-> 1]

\* const MAX_FILE_SIZE = 10 * 1024 * 1024
MAX_FILE_SIZE == 10 * 1024 * 1024

\* validateFile(null); before any call, no result
NoFile == [name |-> <<>>, size |-> -1, given |-> FALSE]

NoValidation == [valid |-> FALSE, error |-> "none"]

\* The options of a withErrorHandling call: a callback is "none" (not given),
\* "fn" (a function that returns) or "throws" (a function that throws).
NoOptions ==
    [onError |-> "none", onSuccess |-> "none", onFinally |-> "none",
     loadingTargets |-> {}, showNotification |-> TRUE]

\* withErrorHandling has not been called; otherwise the call's options, its
\* phase ("pending" during await asyncFn(), then "done"), what it has called
\* in order, and what its promise settled with.
NoHandling ==
    [phase |-> "idle", options |-> NoOptions, log |-> <<>>, outcome |-> "none"]

\* No request has been handed to fetch; otherwise the wrapper that made it,
\* the key in the cookie and the override key at the time, the method and
\* the headers passed to fetch.
NoRequest ==
    [wrapper |-> "none", cookie |-> "null", override |-> "null",
     method |-> "GET", sent |-> <<>>]

\* The debounce delay of handleSearch, in milliseconds.
SEARCH_DEBOUNCE_MS == 300

\* The most calls of handleSearch.
MaxSearchCalls == 3

\* The most steps of the clock of the search box.
MaxSearchTicks == 6

\* handleSearch has not been called; otherwise the query it was given and
\* the time of the call.
NoSearch == [query |-> <<>>, at |-> -1]

\* No event has reached the tabs; otherwise the event, the tab it asked for,
\* the tab shown before it, the data it requested from the backend and
\* whether it called initializeState.
NoTabEvent ==
    [event |-> "none", tab |-> "none", from |-> "review", load |-> "none",
     init |-> FALSE]

\* The most operations applied to the stored part.
MaxDbOps == 5

\* No part is stored; a null timestamp is <<>>, a set one <<time>>.
NoPart ==
    [exists |-> FALSE, type |-> "none", category |-> "none", status |-> "none",
     assigned |-> "null", claimedDate |-> <<>>, updatedAt |-> <<>>]

\* No operation has been applied; otherwise the operation, its argument, the
\* error reported and who the part was assigned to before it.
NoDbOp == [op |-> "none", target |-> "none", error |-> "none", was |-> "null"]

\* The longest list given to filterParts.
MaxFilterLen == 2

\* filterParts has not been called.
NoFilterCall == [list |-> <<>>, searchQuery |-> <<>>]

\* The last selection of a sort key: its category and key, how many
\* selections of that key in a row, counted from the one that made it
\* ascending, have been made, and the list before the first of them.
NoSortLog == [category |-> "none", key |-> "null", n |-> 0, before |-> <<>>]

ApiSlots == 1..MaxApiCalls

\* A slot of apiCalls that holds no call.
NoCall == [op |-> "none", requests |-> 0]

\* No API call has just settled.
NoApi == [op |-> "none", resp |-> "none", settled |-> "none", error |-> "none",
          data |-> "none", requests |-> 0]

VARIABLES
    now,                      \* Date.now()
    cache,                    \* cadModelCache.cache: entries in Map order
    revoked,                  \* blob URLs passed to URL.revokeObjectURL
    urlCount,                 \* blob URLs created so far: 1..urlCount
    lastOp,                   \* the last BlobUrlCache method call: its key, its
                              \* result and the size of the Map before it
    pendingModelRequests,     \* key -> promise id, 0 when absent
    pendingViewRequests,
    pendingManifestRequests,
    promises,                 \* the request promises that are still alive
    torn,                     \* beforeunload has run
    requestFn,                \* the request function the page uses in this run
    lastResult,               \* what the step just taken handed to callers
    lastAuthCheckTime,        \* auth.js: time of the last validation attempt
    authCalls,                \* the checkAuthStatus calls, in calling order
    wipeStep,                 \* wipeActions.js: the step the dialog shows
    modalOpen,                \* the wipe modal is shown
    confirmValue,             \* #wipe-modal-confirm-input .value
    passwordValue,            \* #wipe-modal-password-input .value
    nextDisabled,             \* #wipe-modal-next .disabled
    keyupListeners,           \* keyup listeners on each of the two inputs
    wipeTrail,                \* the steps shown since the modal was opened
    wipeSent,                 \* wipe requests sent so far
    wipePending,              \* wipe requests without a response yet
    lastWipe,                 \* the body of the last wipe request
    wipeOutcome               \* how the last executeWipe ended

cacheVars == <<now, cache, revoked, urlCount, lastOp>>

requestVars == <<pendingModelRequests, pendingViewRequests,
                 pendingManifestRequests, promises, torn, requestFn, lastResult>>

authVars == <<lastAuthCheckTime, authCalls>>

wipeVars == <<wipeStep, modalOpen, confirmValue, passwordValue, nextDisabled,
              keyupListeners, wipeTrail, wipeSent, wipePending, lastWipe,
              wipeOutcome>>

VARIABLES
    apiCalls,                 \* apiClient.js: the calls awaiting their response
    lastApi,                  \* how the API call that just settled ended
    authModalShown            \* showAuthModal() has displayed the auth dialog

apiVars == <<apiCalls, lastApi, authModalShown>>

VARIABLES
    parts,                    \* appState.parts: category -> list of parts
    sortState,                \* appState.sortState: category -> {key, direction}
    sortDirection,            \* appState.sortDirection
    searchQuery,              \* appState.searchQuery
    displayed,                \* category -> the parts its tab lists, in order
    sortLog,                  \* the run of selections of one key on one category
    cncActions                \* per card of the CNC tab, the data-actions it offers

sortVars ==
    <<parts, sortState, sortDirection, searchQuery, displayed, sortLog, cncActions>>

\* helpers.js filterParts: the arguments of the last call and what it
\* returned (the list, or "TypeError" when the callback threw)
VARIABLES
    filterArgs,
    filterResult

filterVars == <<filterArgs, filterResult>>

\* validateFile: the file of the last call and the result returned
VARIABLES
    fileArg,
    fileResult

fileVars == <<fileArg, fileResult>>

\* The backend: one stored part, the server's clock and the outcome of the
\* last operation on the part
VARIABLES
    dbPart,
    dbClock,
    lastDb

dbVars == <<dbPart, dbClock, lastDb>>

\* tabs.js and main.js: the tab shown, the device mode, the tab in local
\* storage, the authentication flag and whether authentication was ever
\* confirmed, the progress of the DOMContentLoaded handler, whether switchTab
\* has run, and the last event with what it did
VARIABLES
    currentTab,
    isMobile,
    savedTab,
    isAuthenticated,
    authConfirmed,
    startup,
    tabSwitched,
    lastTab

tabVars ==
    <<currentTab, isMobile, savedTab, isAuthenticated, authConfirmed, startup,
      tabSwitched, lastTab>>

\* tabs.js, handleSearch: the time in milliseconds, the module's
\* searchDebounceTimer (0 for null), the timers set and not yet fired or
\* cleared, the debounce callbacks awaiting an imported renderer, the number
\* of timers made, the number of renders made by debounce callbacks, and the
\* last call of handleSearch
VARIABLES
    searchClock,
    searchDebounceTimer,
    timers,
    awaitingImport,
    timersMade,
    searchRenders,
    lastSearch

debounceVars ==
    <<searchClock, searchDebounceTimer, timers, awaitingImport, timersMade,
      searchRenders, lastSearch>>

\* utils/api.js: the API key getApiKeyFromCookie() finds ("null" when the
\* cookie is absent) and the last request handed to fetch
VARIABLES
    apiKeyCookie,
    lastRequest

headerVars == <<apiKeyCookie, lastRequest>>

\* apiErrorHandler.js, withErrorHandling: the elements that are disabled, and
\* the call in progress or ended last
VARIABLES
    disabledEls,
    handling

handlingVars == <<disabledEls, handling>>

\* The state of the user-interface modules modelled last.
uiVars == <<tabVars, debounceVars, headerVars, handlingVars>>

\* The state of the components modelled after the tabs.
laterVars == <<filterVars, fileVars, dbVars, uiVars>>

\* The state of the request cache, the auth check and the wipe modal.
frontVars == <<cacheVars, requestVars, authVars, wipeVars>>

\* The state of the components modelled after the wipe modal.
restVars == <<apiVars, sortVars, laterVars>>

\* What the actions of one component leave alone.
exceptApi == <<frontVars, sortVars, laterVars>>

exceptSort == <<frontVars, apiVars, laterVars>>

exceptFilter == <<frontVars, apiVars, sortVars, fileVars, dbVars, uiVars>>

exceptFile == <<frontVars, apiVars, sortVars, filterVars, dbVars, uiVars>>

exceptDb == <<frontVars, apiVars, sortVars, filterVars, fileVars, uiVars>>

\* Everything but the user-interface modules modelled last.
olderVars == <<frontVars, apiVars, sortVars, filterVars, fileVars, dbVars>>

exceptTabs == <<olderVars, debounceVars, headerVars, handlingVars>>

exceptHeaders == <<olderVars, tabVars, debounceVars, handlingVars>>

exceptHandling == <<olderVars, tabVars, debounceVars, headerVars>>

\* handleSearch writes appState.searchQuery and leaves the rest of the lists'
\* state alone.
exceptDebounce ==
    <<frontVars, apiVars, filterVars, fileVars, dbVars, tabVars, headerVars,
      handlingVars, parts, sortState, sortDirection, displayed, sortLog, cncActions>>

vars == <<cacheVars, requestVars, authVars, wipeVars, restVars>>

\* ------------------------------------------------------------- BlobUrlCache
\* The state of one BlobUrlCache is [cache, revoked]: the Map, as the sequence
\* of its entries in insertion order, and the URLs revoked so far.  An entry is
\* [key, url, timestamp, ins]; ins is the URL the key was first inserted with,
\* which orders entries by the time their key entered the Map.

IndexOf(c, k) ==
    IF \E i \in 1..Len(c) : c[i].key = k
    THEN CHOOSE i \in 1..Len(c) : c[i].key = k
    ELSE 0

RemoveAt(c, i) == SubSeq(c, 1, i - 1) \o SubSeq(c, i + 1, Len(c))

\* Map.prototype.set: an existing key keeps its place, a new one goes last.
MapSet(c, k, url, t) ==
    LET i == IndexOf(c, k)
    IN  IF i = 0
        THEN Append(c, [key |-> k, url |-> url, timestamp |-> t, ins |-> url])
        ELSE [c EXCEPT ![i] = [key |-> k, url |-> url, timestamp |-> t,
                               ins |-> c[i].ins]]

\* A mutant of CacheRevoke: the entry is dropped, its URL is not revoked.
CacheRevokeNoRelease(st, k) ==
    LET i == IndexOf(st.cache, k)
    IN  IF i = 0 THEN st
        ELSE [st EXCEPT !.cache = RemoveAt(st.cache, i)]

\* BlobUrlCache.revoke
CacheRevoke(st, k) ==
    LET i == IndexOf(st.cache, k)
    IN  IF i = 0 THEN st
        ELSE [cache   |-> RemoveAt(st.cache, i),
              revoked |-> st.revoked \cup {st.cache[i].url}]

\* A mutant of CacheEvict: the newest entry goes instead of the oldest.
CacheEvictNewest(st) ==
    IF Len(st.cache) >= maxSize /\ Len(st.cache) > 0
    THEN CacheRevoke(st, st.cache[Len(st.cache)].key)
    ELSE st

\* A mutant of CacheEvict: the cache is full only above maxSize.
CacheEvictLate(st) ==
    IF Len(st.cache) > maxSize /\ Len(st.cache) > 0
    THEN CacheRevoke(st, st.cache[1].key)
    ELSE st

\* BlobUrlCache.set, its first half: this.cache.keys().next().value is the
\* first key in insertion order (undefined, and revoke a no-op, on an empty Map).
CacheEvict(st) ==
    IF Len(st.cache) >= maxSize /\ Len(st.cache) > 0
    THEN CacheRevoke(st, st.cache[1].key)
    ELSE st

\* BlobUrlCache.set
CacheSet(st, k, url, t) ==
    LET st1 == CacheEvict(st)
    IN  [st1 EXCEPT !.cache = MapSet(st1.cache, k, url, t)]

\* A mutant of Expired: an entry expires when its age reaches the TTL.
ExpiredAtTtl(entry, t) == t - entry.timestamp >= expiryMs

\* BlobUrlCache.get: the expiry test
Expired(entry, t) == t - entry.timestamp > expiryMs

\* BlobUrlCache.get: [st, ret], ret = 0 for null
CacheGet(st, k, t) ==
    LET i == IndexOf(st.cache, k)
    IN  IF i = 0 THEN [st |-> st, ret |-> 0]
        ELSE IF Expired(st.cache[i], t)
             THEN [st |-> CacheRevoke(st, k), ret |-> 0]
             ELSE [st |-> st, ret |-> st.cache[i].url]

\* BlobUrlCache.has
CacheHas(st, k, t) ==
    LET g == CacheGet(st, k, t)
    IN  [st |-> g.st, ret |-> g.ret # 0]

\* BlobUrlCache.clear: the key iterator is live, so revoking while iterating
\* visits every entry once.
RECURSIVE CacheClear(_)
CacheClear(st) ==
    IF Len(st.cache) = 0 THEN st
    ELSE CacheClear(CacheRevoke(st, st.cache[1].key))

CacheState == [cache |-> cache, revoked |-> revoked]

\* URL.createObjectURL: the next unused URL.
NewUrl == urlCount + 1

TicksTaken == ((now - StartNow) \div expiryMs) + ((now - StartNow) % expiryMs)

\* -------------------------------------------- the cache driven through its API

DoSet(k) ==
    /\ NewUrl <= MaxUrls
    /\ LET st == CacheSet(CacheState, k, NewUrl, now)
       IN  /\ cache' = st.cache
           /\ revoked' = st.revoked
    /\ urlCount' = NewUrl
    /\ lastOp' = [op |-> "set", key |-> k, ret |-> NewUrl, pre |-> Len(cache)]
    /\ UNCHANGED <<now, requestVars, authVars, wipeVars, restVars>>

DoGet(k) ==
    /\ LET g == CacheGet(CacheState, k, now)
       IN  /\ cache' = g.st.cache
           /\ revoked' = g.st.revoked
           /\ lastOp' = [op |-> "get", key |-> k, ret |-> g.ret, pre |-> Len(cache)]
    /\ UNCHANGED <<now, urlCount, requestVars, authVars, wipeVars, restVars>>

DoHas(k) ==
    /\ LET h == CacheHas(CacheState, k, now)
       IN  /\ cache' = h.st.cache
           /\ revoked' = h.st.revoked
           /\ lastOp' = [op |-> "has", key |-> k, ret |-> IF h.ret THEN 1 ELSE 0,
                          pre |-> Len(cache)]
    /\ UNCHANGED <<now, urlCount, requestVars, authVars, wipeVars, restVars>>

DoRevoke(k) ==
    /\ LET st == CacheRevoke(CacheState, k)
       IN  /\ cache' = st.cache
           /\ revoked' = st.revoked
    /\ lastOp' = [op |-> "revoke", key |-> k, ret |-> 0, pre |-> Len(cache)]
    /\ UNCHANGED <<now, urlCount, requestVars, authVars, wipeVars, restVars>>

DoClear ==
    /\ LET st == CacheClear(CacheState)
       IN  /\ cache' = st.cache
           /\ revoked' = st.revoked
    /\ lastOp' = [op |-> "clear", key |-> 0, ret |-> 0, pre |-> Len(cache)]
    /\ UNCHANGED <<now, urlCount, requestVars, authVars, wipeVars, restVars>>

CacheTick ==
    /\ TicksTaken < MaxTicks
    /\ \E d \in CacheTickSteps : now' = now + d
    /\ UNCHANGED <<cache, revoked, urlCount, lastOp, requestVars, authVars, wipeVars, restVars>>

Init ==
    /\ now = StartNow
    /\ cache = <<>>
    /\ revoked = {}
    /\ urlCount = 0
    /\ lastOp = [op |-> "none", key |-> 0, ret |-> 0, pre |-> 0]
    /\ pendingModelRequests = [k \in Keys |-> 0]
    /\ pendingViewRequests = [k \in ViewKeys |-> 0]
    /\ pendingManifestRequests = [k \in Keys |-> 0]
    /\ promises = [s \in 1..MaxRequests |-> NoPromise]
    /\ lastResult = NoResult
    /\ torn = FALSE
    /\ requestFn \in RequestFns
    /\ lastAuthCheckTime = 0
    /\ authCalls = [c \in AuthCallIds |-> IdleCall]
    /\ wipeStep = 1
    /\ modalOpen = FALSE
    /\ confirmValue = ""
    /\ passwordValue = <<>>
    /\ nextDisabled = FALSE
    /\ keyupListeners = 0
    /\ wipeTrail = <<>>
    /\ wipeSent = 0
    /\ wipePending = 0
    /\ lastWipe = NoWipe
    /\ wipeOutcome = NoWipeOutcome
    /\ apiCalls = [c \in ApiSlots |-> NoCall]
    /\ lastApi = NoApi
    /\ authModalShown = FALSE
    /\ parts = [cat \in Categories |-> <<>>]
    /\ sortState = [cat \in Categories |-> NoSort]
    /\ sortDirection = 1
    /\ searchQuery = <<>>
    /\ displayed = [cat \in Categories |-> <<>>]
    /\ sortLog = NoSortLog
    /\ cncActions = <<>>
    /\ filterArgs = NoFilterCall
    /\ filterResult = <<>>
    /\ fileArg = NoFile
    /\ fileResult = NoValidation
    /\ dbPart = NoPart
    /\ dbClock = 0
    /\ lastDb = NoDbOp
    /\ currentTab = "review"
    /\ isMobile = FALSE
    /\ savedTab = "review"
    /\ isAuthenticated = FALSE
    /\ authConfirmed = FALSE
    /\ startup = "loading"
    /\ tabSwitched = FALSE
    /\ lastTab = NoTabEvent
    /\ searchClock = 0
    /\ searchDebounceTimer = 0
    /\ timers = {}
    /\ awaitingImport = {}
    /\ timersMade = 0
    /\ searchRenders = 0
    /\ lastSearch = NoSearch
    /\ apiKeyCookie = "null"
    /\ lastRequest = NoRequest
    /\ disabledEls = {}
    /\ handling = NoHandling

NextCache ==
    \/ \E k \in CacheKeys : DoSet(k)
    \/ \E k \in CacheKeys : DoGet(k)
    \/ \E k \in CacheKeys : DoHas(k)
    \/ \E k \in CacheKeys : DoRevoke(k)
    \/ DoClear
    \/ CacheTick

\* The cache on its own, with no request in flight.
InitCache == Init /\ requestFn = "model"

SpecCache == InitCache /\ [][NextCache]_vars

\* ------------------------------------------------ de-duplicated artifact requests
\* promises[s] is a request promise that is still pending, or still held by a
\* pending map, or NoPromise.  A promise is [fn, key, state, phase, fetched]: fn
\* the request function that created it, phase the await its async body is
\* suspended at, fetched whether the body reached fetch().  A settled promise
\* that no map holds is garbage and leaves the state; what it settled to is in
\* lastResult.
\* lastResult is [fn, key, via, p, url], what the step just taken handed out:
\* for a call, how it was answered (via "cache", "joined" or "new"), the promise
\* p it returned and, for a cache hit, the URL; for a promise that settled, via
\* "resolved" with the value in url, or via "rejected".  It is NoResult after
\* any other step.

FetchOutcomes == {"ok", "http", "network"}

Slots == 1..MaxRequests

NewPromise(fn, key, phase, fetched) ==
    [fn |-> fn, key |-> key, state |-> "pending", phase |-> phase,
     fetched |-> fetched]

Rejected(pr) == [pr EXCEPT !.state = "rejected", !.phase = "settled"]

\* The body of the async IIFE up to its first await: getApiKeyFromCookie()
\* throws when document.cookie does not decode (decodeURIComponent, URIError),
\* and then no fetch is issued and the promise is born rejected.
BodyToFirstAwait(fn, key, prepOk) ==
    IF prepOk THEN NewPromise(fn, key, "fetch", TRUE)
    ELSE Rejected(NewPromise(fn, key, "fetch", FALSE))

\* A mutant of StorePending: the new promise is not entered in the map.
StorePendingForgets(pending, key, id, prepOk) == pending

\* The pending map after a new request has been started: the body's finally
\* (pending.delete) has already run when the body threw before its first await,
\* and pending.set(key, request) runs after the body has suspended or ended.
StorePending(pending, key, id, prepOk) ==
    LET afterBody == IF prepOk THEN pending ELSE [pending EXCEPT ![key] = 0]
    IN  [afterBody EXCEPT ![key] = id]

FreeSlots == {s \in Slots : promises[s] = NoPromise}

NextPromise == CHOOSE s \in FreeSlots : \A t \in FreeSlots : s <= t

Result(fn, key, via, p, url) ==
    [fn |-> fn, key |-> key, via |-> via, p |-> p, url |-> url]

\* A promise no pending map holds stays in the state only while it is pending.
Retained(pr, held) == IF pr.state = "pending" \/ held THEN pr ELSE NoPromise

\* getPartModelBlobUrl(partId)
GetPartModelBlobUrl(k, prepOk) ==
    /\ ~torn
    /\ requestFn = "model"
    /\ LET g == CacheGet(CacheState, k, now)
       IN  /\ cache' = g.st.cache
           /\ revoked' = g.st.revoked
           /\ IF g.ret # 0
              THEN /\ lastResult' = Result("model", k, "cache", 0, g.ret)
                   /\ UNCHANGED <<promises, pendingModelRequests>>
              ELSE IF pendingModelRequests[k] # 0
              THEN /\ lastResult' = Result("model", k, "joined",
                                           pendingModelRequests[k], 0)
                   /\ UNCHANGED <<promises, pendingModelRequests>>
              ELSE /\ FreeSlots # {}
                   /\ pendingModelRequests' =
                          StorePending(pendingModelRequests, k, NextPromise, prepOk)
                   /\ promises' = [promises EXCEPT ![NextPromise] =
                          Retained(BodyToFirstAwait("model", k, prepOk),
                                   pendingModelRequests'[k] = NextPromise)]
                   /\ lastResult' = Result("model", k, "new", NextPromise, 0)
    /\ UNCHANGED <<now, urlCount, lastOp, pendingViewRequests,
                   pendingManifestRequests, torn, requestFn, authVars, wipeVars, restVars>>

\* getPartViewBlobUrl(partId, viewIndex)
GetPartViewBlobUrl(k, v, prepOk) ==
    /\ ~torn
    /\ requestFn = "view"
    /\ LET key == ViewKey(k, v)
       IN  IF pendingViewRequests[key] # 0
           THEN /\ lastResult' = Result("view", key, "joined",
                                        pendingViewRequests[key], 0)
                /\ UNCHANGED <<promises, pendingViewRequests>>
           ELSE /\ FreeSlots # {}
                /\ pendingViewRequests' =
                       StorePending(pendingViewRequests, key, NextPromise, prepOk)
                /\ promises' = [promises EXCEPT ![NextPromise] =
                       Retained(BodyToFirstAwait("view", key, prepOk),
                                pendingViewRequests'[key] = NextPromise)]
                /\ lastResult' = Result("view", key, "new", NextPromise, 0)
    /\ UNCHANGED <<cacheVars, pendingModelRequests, pendingManifestRequests, torn,
                   requestFn, authVars, wipeVars, restVars>>

\* getPartViewsManifest(partId): the body's first await is on apiGet, an async
\* function, so an exception while apiGet prepares the request reaches the body
\* as a rejection, after pending.set has run.
GetPartViewsManifest(k, prepOk) ==
    /\ ~torn
    /\ requestFn = "manifest"
    /\ IF pendingManifestRequests[k] # 0
       THEN /\ lastResult' = Result("manifest", k, "joined",
                                    pendingManifestRequests[k], 0)
            /\ UNCHANGED <<promises, pendingManifestRequests>>
       ELSE /\ FreeSlots # {}
            /\ pendingManifestRequests' =
                   StorePending(pendingManifestRequests, k, NextPromise, TRUE)
            /\ promises' = [promises EXCEPT ![NextPromise] =
                   NewPromise("manifest", k, "apiGet", prepOk)]
            /\ lastResult' = Result("manifest", k, "new", NextPromise, 0)
    /\ UNCHANGED <<cacheVars, pendingModelRequests, pendingViewRequests, torn,
                   requestFn, authVars, wipeVars, restVars>>

\* getPartFileBlobUrl(partId): no cache, no pending map.
GetPartFileBlobUrl(k, prepOk) ==
    /\ ~torn
    /\ requestFn = "file"
    /\ FreeSlots # {}
    /\ promises' = [promises EXCEPT ![NextPromise] =
           Retained(BodyToFirstAwait("file", k, prepOk), FALSE)]
    /\ lastResult' = Result("file", k, "new", NextPromise, 0)
    /\ UNCHANGED <<cacheVars, pendingModelRequests, pendingViewRequests,
                   pendingManifestRequests, torn, requestFn, authVars, wipeVars, restVars>>

\* finally { pending...Requests.delete(key) } of the body that owns promise p
FinallyDelete(p) ==
    LET pr == promises[p]
    IN  /\ pendingModelRequests' =
               IF pr.fn = "model"
               THEN [pendingModelRequests EXCEPT ![pr.key] = 0]
               ELSE pendingModelRequests
        /\ pendingViewRequests' =
               IF pr.fn = "view"
               THEN [pendingViewRequests EXCEPT ![pr.key] = 0]
               ELSE pendingViewRequests
        /\ pendingManifestRequests' =
               IF pr.fn = "manifest"
               THEN [pendingManifestRequests EXCEPT ![pr.key] = 0]
               ELSE pendingManifestRequests

\* Promise p settles and its body's finally has run.
Settle(p, via, url) ==
    /\ FinallyDelete(p)
    /\ promises' = [promises EXCEPT ![p] = NoPromise]
    /\ lastResult' = Result(promises[p].fn, promises[p].key, via, p, url)

\* await fetch(url, { headers }) settles, in a model, view or file request.
FetchSettled(p, outcome) ==
    /\ ~torn
    /\ promises[p].state = "pending"
    /\ promises[p].phase = "fetch"
    /\ IF outcome = "ok"
       THEN /\ promises' = [promises EXCEPT ![p].phase = "blob"]
            /\ lastResult' = NoResult
            /\ UNCHANGED <<pendingModelRequests, pendingViewRequests,
                           pendingManifestRequests>>
       ELSE Settle(p, "rejected", 0)
    /\ UNCHANGED <<cacheVars, torn, requestFn, authVars, wipeVars, restVars>>

\* await response.blob() settles; on success the body creates the blob URL,
\* caches it (models only) and returns it.
BlobSettled(p, ok) ==
    /\ ~torn
    /\ promises[p].state = "pending"
    /\ promises[p].phase = "blob"
    /\ IF ok
       THEN /\ NewUrl <= MaxUrls
            /\ urlCount' = NewUrl
            /\ LET st == IF promises[p].fn = "model"
                         THEN CacheSet(CacheState, promises[p].key, NewUrl, now)
                         ELSE CacheState
               IN  /\ cache' = st.cache
                   /\ revoked' = st.revoked
            /\ Settle(p, "resolved", NewUrl)
       ELSE /\ Settle(p, "rejected", 0)
            /\ UNCHANGED <<cache, revoked, urlCount>>
    /\ UNCHANGED <<now, lastOp, torn, requestFn, authVars, wipeVars, restVars>>

\* await apiGet(...) settles in a manifest request.
ManifestSettled(p, ok) ==
    /\ ~torn
    /\ promises[p].state = "pending"
    /\ promises[p].phase = "apiGet"
    /\ IF promises[p].fetched /\ ok
       THEN Settle(p, "resolved", 0)
       ELSE Settle(p, "rejected", 0)
    /\ UNCHANGED <<cacheVars, torn, requestFn, authVars, wipeVars, restVars>>

\* window "beforeunload": cadModelCache.clear(); the page is gone afterwards.
BeforeUnload ==
    /\ ~torn
    /\ LET st == CacheClear(CacheState)
       IN  /\ cache' = st.cache
           /\ revoked' = st.revoked
    /\ torn' = TRUE
    /\ lastResult' = NoResult
    /\ UNCHANGED <<now, urlCount, lastOp, pendingModelRequests,
                   pendingViewRequests, pendingManifestRequests, promises,
                   requestFn, authVars, wipeVars, restVars>>

\* Time passes between two handlers.
RequestTick ==
    /\ ~torn
    /\ TicksTaken < MaxTicks
    /\ now' = now + expiryMs
    /\ lastResult' = NoResult
    /\ UNCHANGED <<cache, revoked, urlCount, lastOp, pendingModelRequests,
                   pendingViewRequests, pendingManifestRequests, promises, torn,
                   requestFn, authVars, wipeVars, restVars>>

NextRequests ==
    \/ \E k \in Keys, prepOk \in BOOLEAN : GetPartModelBlobUrl(k, prepOk)
    \/ \E k \in Keys, v \in ViewIndexes, prepOk \in BOOLEAN :
           GetPartViewBlobUrl(k, v, prepOk)
    \/ \E k \in Keys, prepOk \in BOOLEAN : GetPartViewsManifest(k, prepOk)
    \/ \E k \in Keys, prepOk \in BOOLEAN : GetPartFileBlobUrl(k, prepOk)
    \/ \E p \in Slots, outcome \in FetchOutcomes : FetchSettled(p, outcome)
    \/ \E p \in Slots, ok \in BOOLEAN : BlobSettled(p, ok)
    \/ \E p \in Slots, ok \in BOOLEAN : ManifestSettled(p, ok)
    \/ BeforeUnload
    \/ RequestTick

SpecRequests == Init /\ [][NextRequests]_vars

\* ---------------------------------------------------------- checkAuthStatus
\* authCalls[c] is the c-th call of checkAuthStatus: pc is where its body
\* stands (idle: not called; sleeping: awaiting the cooldown timer; sent:
\* awaiting the response of the validation request; done: resolved), delayed
\* whether it awaited the timer, wake when its timer is due, sentAt when its
\* request left, outcome how apiGet ended, result the value it resolved to.

\* How apiGet of the validation request ends; "error" stands for what it throws
\* on a 401, on another non-2xx status and on a network failure.
AuthOutcomes == {"ok", "error"}

\* now - lastAuthCheckTime < AUTH_CHECK_COOLDOWN
InCooldown(t, last) == t - last < AUTH_CHECK_COOLDOWN

\* const remainingTime = AUTH_CHECK_COOLDOWN - (now - lastAuthCheckTime)
RemainingTime(t, last) == AUTH_CHECK_COOLDOWN - (t - last)

AfterCooldownDropped(c, prepOk) ==
    /\ lastAuthCheckTime' = now
    /\ authCalls' = [authCalls EXCEPT ![c].pc = "done"]

\* lastAuthCheckTime = Date.now(); then apiGet(AUTH_CHECK) up to its fetch().
\* prepOk is FALSE when getHeaders throws (decodeURIComponent of a malformed
\* document.cookie): apiGet rejects without a request, the catch returns false.
AfterCooldown(c, prepOk) ==
    /\ lastAuthCheckTime' = now
    /\ authCalls' = [authCalls EXCEPT ![c] =
           IF prepOk
           THEN [@ EXCEPT !.pc = "sent", !.sentAt = now]
           ELSE [@ EXCEPT !.pc = "done", !.outcome = "unsent", !.result = FALSE]]

\* checkAuthStatus(apiKey), up to its first await
CheckAuthStatus(c, prepOk) ==
    /\ authCalls[c].pc = "idle"
    /\ \A d \in AuthCallIds : d < c => authCalls[d].pc # "idle"
    /\ IF InCooldown(now, lastAuthCheckTime)
       THEN /\ now + RemainingTime(now, lastAuthCheckTime) <= AuthHorizon
            /\ authCalls' = [authCalls EXCEPT ![c] =
                   [@ EXCEPT !.pc = "sleeping", !.delayed = TRUE,
                             !.wake = now + RemainingTime(now, lastAuthCheckTime)]]
            /\ UNCHANGED lastAuthCheckTime
       ELSE AfterCooldown(c, prepOk)
    /\ UNCHANGED <<cacheVars, requestVars, wipeVars, restVars>>

\* The setTimeout of call c fires, no earlier than it is due.
TimerFire(c, prepOk) ==
    /\ authCalls[c].pc = "sleeping"
    /\ now >= authCalls[c].wake
    /\ AfterCooldown(c, prepOk)
    /\ UNCHANGED <<cacheVars, requestVars, wipeVars, restVars>>

\* await apiGet(...) settles: return true, or catch and return false.
AuthResponse(c, outcome) ==
    /\ authCalls[c].pc = "sent"
    /\ authCalls' = [authCalls EXCEPT ![c] =
           [@ EXCEPT !.pc = "done", !.outcome = outcome,
                     !.result = (outcome = "ok")]]
    /\ UNCHANGED <<cacheVars, requestVars, lastAuthCheckTime, wipeVars, restVars>>

AuthTick ==
    /\ now < AuthHorizon
    /\ now' = now + AuthTickStep
    /\ UNCHANGED <<cache, revoked, urlCount, lastOp, requestVars, authVars,
                   wipeVars, restVars>>

NextAuth ==
    \/ \E c \in AuthCallIds, prepOk \in BOOLEAN : CheckAuthStatus(c, prepOk)
    \/ \E c \in AuthCallIds, prepOk \in BOOLEAN : TimerFire(c, prepOk)
    \/ \E c \in AuthCallIds, outcome \in AuthOutcomes : AuthResponse(c, outcome)
    \/ AuthTick

InitAuth == Init /\ requestFn = "model"

SpecAuth == InitAuth /\ [][NextAuth]_vars

\* Time passes and a timer that is due fires.
SpecAuthFair ==
    /\ SpecAuth
    /\ WF_vars(AuthTick)
    /\ \A c \in AuthCallIds : WF_vars(\E prepOk \in BOOLEAN : TimerFire(c, prepOk))

\* ------------------------------------------------------------------ switchTab

DESKTOP_TABS == <<"review", "cnc", "hand", "misc", "completed", "leaderboard">>

MOBILE_TABS == <<"hand", "completed">>

\* getAllowedTabs(), for a value of appState.isMobile
GetAllowedTabs(mobile) == IF mobile THEN MOBILE_TABS ELSE DESKTOP_TABS

\* allowedTabs.includes(tab)
Includes1(order, tab) == \E i \in 1..Len(order) : order[i] = tab

\* order.indexOf(tab), counted from 1; 0 when the tab is not in the list
TabIndexOf(order, tab) ==
    IF Includes1(order, tab) THEN CHOOSE i \in 1..Len(order) : order[i] = tab
    ELSE 0

\* A mutant of TargetTab: the requested tab is taken as it is.
TargetTabUnchecked(tab, mobile) == tab

\* switchTab: targetTab
TargetTab(tab, mobile) ==
    IF Includes1(GetAllowedTabs(mobile), tab) THEN tab
    ELSE GetAllowedTabs(mobile)[1]

\* A mutant of DataLoad: the data is fetched whoever asks.
DataLoadUngated(targetTab, authenticated) ==
    IF targetTab = "review" THEN "loadAllParts"
    ELSE IF targetTab = "leaderboard" THEN "loadLeaderboard"
    ELSE "loadPartsForCategory"

\* switchTab: the data it fetches for the tab it switched to
DataLoad(targetTab, authenticated) ==
    IF ~authenticated THEN "none"
    ELSE IF targetTab = "review" THEN "loadAllParts"
    ELSE IF targetTab = "leaderboard" THEN "loadLeaderboard"
    ELSE "loadPartsForCategory"

\* switchTab(tab), called by the event named, in device mode mobile with
\* the authentication flag given
SwitchTabFrom(event, tab, mobile, authenticated, init) ==
    /\ currentTab' = TargetTab(tab, mobile)
    /\ savedTab' = TargetTab(tab, mobile)
    /\ tabSwitched' = TRUE
    /\ lastTab' = [event |-> event, tab |-> tab, from |-> currentTab,
                   load |-> DataLoad(TargetTab(tab, mobile), authenticated),
                   init |-> init]

\* -------------------------------------------------------------- the wipe modal

RECURSIVE TrimStart(_)
TrimStart(v) == IF v # <<>> /\ Head(v) = " " THEN TrimStart(Tail(v)) ELSE v

RECURSIVE TrimEnd(_)
TrimEnd(v) ==
    IF v # <<>> /\ v[Len(v)] = " " THEN TrimEnd(SubSeq(v, 1, Len(v) - 1)) ELSE v

\* String.prototype.trim()
Trim(v) == TrimEnd(TrimStart(v))

\* updateWipeModalUI(): nextBtn.disabled for the step shown
UiDisabled(step) == step = 3

\* updateNextBtnState(): nextBtn.disabled from the two inputs, at step 3 only
NextBtnState(step, confirm, password, disabled) ==
    IF step = 3
    THEN ~(confirm = "DELETE" /\ Len(Trim(password)) > 0)
    ELSE disabled

OpenStepStale == wipeStep

\* startWipeProcess(): wipeStep = 1
OpenStep == 1

\* setModalLoading("wipe-modal", ...) belongs to modalManager.js, whose code is
\* not given: it may leave the button enabled or disabled.
SetModalLoading == nextDisabled' \in BOOLEAN

\* startWipeProcess()
StartWipeProcess ==
    /\ keyupListeners < MaxOpens
    /\ wipeStep' = OpenStep
    /\ nextDisabled' = UiDisabled(wipeStep')
    /\ modalOpen' = TRUE
    /\ confirmValue' = ""
    /\ passwordValue' = <<>>
    /\ keyupListeners' = keyupListeners + 1
    /\ wipeTrail' = <<wipeStep'>>
    /\ UNCHANGED <<cacheVars, requestVars, authVars, restVars, wipeSent, wipePending,
                   lastWipe, wipeOutcome>>

\* closeWipeModal(), from the modal's cancel control
CloseWipeModal ==
    /\ modalOpen
    /\ modalOpen' = FALSE
    /\ UNCHANGED <<cacheVars, requestVars, authVars, restVars, wipeStep, confirmValue,
                   passwordValue, nextDisabled, keyupListeners, wipeTrail,
                   wipeSent, wipePending, lastWipe, wipeOutcome>>

\* "input" event on the confirmation input
TypeConfirm(v) ==
    /\ modalOpen
    /\ confirmValue' = v
    /\ nextDisabled' = NextBtnState(wipeStep, v, passwordValue, nextDisabled)
    /\ UNCHANGED <<cacheVars, requestVars, authVars, restVars, wipeStep, modalOpen,
                   passwordValue, keyupListeners, wipeTrail, wipeSent,
                   wipePending, lastWipe, wipeOutcome>>

\* "input" event on the password input
TypePassword(v) ==
    /\ modalOpen
    /\ passwordValue' = v
    /\ nextDisabled' = NextBtnState(wipeStep, confirmValue, v, nextDisabled)
    /\ UNCHANGED <<cacheVars, requestVars, authVars, restVars, wipeStep, modalOpen,
                   confirmValue, keyupListeners, wipeTrail, wipeSent,
                   wipePending, lastWipe, wipeOutcome>>

\* executeWipe(password) up to the fetch of wipeAllParts, run n times in a row
ExecuteWipe(n) ==
    /\ wipeSent + n <= MaxWipeRequests
    /\ wipeSent' = wipeSent + n
    /\ wipePending' = wipePending + n
    /\ lastWipe' = [password |-> passwordValue]
    /\ SetModalLoading
    /\ UNCHANGED <<wipeStep, wipeTrail, wipeOutcome>>

\* handleWipeNext(), run by n listeners in a row
HandleWipeNext(n) ==
    IF wipeStep = 1 \/ wipeStep = 2
    THEN /\ wipeStep' = wipeStep + 1
         /\ nextDisabled' = UiDisabled(wipeStep')
         /\ wipeTrail' = Append(wipeTrail, wipeStep')
         /\ UNCHANGED <<wipeSent, wipePending, lastWipe, wipeOutcome>>
    ELSE IF confirmValue = "DELETE" /\ passwordValue # <<>>
    THEN ExecuteWipe(n)
    ELSE UNCHANGED <<wipeStep, nextDisabled, wipeTrail, wipeSent, wipePending,
                     lastWipe, wipeOutcome>>

\* "click" on the next button; a disabled button dispatches no click
ClickNext ==
    /\ modalOpen
    /\ ~nextDisabled
    /\ HandleWipeNext(1)
    /\ UNCHANGED <<cacheVars, requestVars, authVars, restVars, modalOpen, confirmValue,
                   passwordValue, keyupListeners>>

\* "keyup" of Enter on one of the inputs: every listener added so far runs;
\* the first n of them find the button enabled.
PressEnter(n) ==
    /\ modalOpen
    /\ n \in 1..keyupListeners
    /\ IF wipeStep = 3 /\ ~nextDisabled
       THEN /\ HandleWipeNext(n)
            /\ (n < keyupListeners /\ wipeSent' # wipeSent) => nextDisabled'
       ELSE /\ n = 1
            /\ UNCHANGED <<wipeStep, nextDisabled, wipeTrail, wipeSent,
                           wipePending, lastWipe, wipeOutcome>>
    /\ UNCHANGED <<cacheVars, requestVars, authVars, restVars, modalOpen, confirmValue,
                   passwordValue, keyupListeners>>

\* A mutant of ExecuteWipeEffects: the dialog is closed before the state is
\* re-initialised.
ExecuteWipeEffectsCloseFirst(ok, initOk) ==
    IF ~ok THEN <<"showErrorNotification", "setModalLoading(false)">>
    ELSE <<"showInfoNotification", "closeWipeModal", "initializeState",
           "switchTab", "setModalLoading(false)">>

\* executeWipe after await wipeAllParts(password): what it calls, in order,
\* when the request succeeded or failed and initializeState() resolved or
\* rejected
ExecuteWipeEffects(ok, initOk) ==
    IF ~ok THEN <<"showErrorNotification", "setModalLoading(false)">>
    ELSE IF ~initOk
    THEN <<"showInfoNotification", "initializeState", "showErrorNotification",
           "setModalLoading(false)">>
    ELSE <<"showInfoNotification", "initializeState", "switchTab",
           "closeWipeModal", "setModalLoading(false)">>

\* await wipeAllParts(password) settles in executeWipe, and executeWipe runs
\* to its end
WipeResponse(ok, initOk) ==
    LET effects == ExecuteWipeEffects(ok, initOk)
        called(f) == \E k \in 1..Len(effects) : effects[k] = f
    IN  /\ wipePending > 0
        /\ wipePending' = wipePending - 1
        /\ wipeOutcome' = [ok |-> ok, effects |-> effects]
        /\ modalOpen' = IF called("closeWipeModal") THEN FALSE ELSE modalOpen
        /\ IF called("switchTab")
           THEN SwitchTabFrom("wipe", "review", isMobile, isAuthenticated, FALSE)
           ELSE UNCHANGED <<currentTab, savedTab, tabSwitched, lastTab>>
        /\ SetModalLoading
        /\ UNCHANGED <<cacheVars, requestVars, authVars, apiVars, sortVars,
                       filterVars, fileVars, dbVars, debounceVars, headerVars,
                       handlingVars, isMobile, isAuthenticated, authConfirmed, startup,
                       wipeStep, confirmValue, passwordValue, keyupListeners,
                       wipeTrail, wipeSent, lastWipe>>

NextWipe ==
    \/ StartWipeProcess
    \/ CloseWipeModal
    \/ \E v \in ConfirmValues : TypeConfirm(v)
    \/ \E v \in PasswordValues : TypePassword(v)
    \/ ClickNext
    \/ \E n \in 1..MaxOpens : PressEnter(n)
    \/ \E ok \in BOOLEAN : \E initOk \in BOOLEAN : WipeResponse(ok, initOk)

InitWipe == Init /\ requestFn = "model"

SpecWipe == InitWipe /\ [][NextWipe]_vars

\* ---------------------------------------------------------------- the API client
\* apiCalls[c] is a call of a partsApi / apiClient function whose fetch() is
\* out: its operation and the requests sent for it so far.  When the call
\* settles its slot is freed and lastApi tells how it ended.

\* The state-mutating operations of partsApi.js.
MutatingOps == {"createPart", "updatePart", "deletePart", "approvePart",
                "assignPart", "unclaimPart", "completePart", "revertPart",
                "wipeAllParts"}

ApiOps == MutatingOps \cup {"getParts", "uploadPartFile", "apiDownloadFile"}

\* The apiClient function an operation goes through.
ClientFn(op) ==
    CASE op \in {"createPart", "approvePart", "assignPart", "unclaimPart",
                 "completePart", "revertPart", "wipeAllParts"} -> "apiPost"
      [] op = "updatePart" -> "apiPut"
      [] op = "deletePart" -> "apiDelete"
      [] op = "getParts" -> "apiGet"
      [] op = "uploadPartFile" -> "apiPostMultipart"
      [] OTHER -> "apiDownloadFile"

\* What fetch() and the reading of the body can come to: a 2xx response, a 2xx
\* response whose body cannot be read, a 401, another non-2xx status, and a
\* rejection of fetch() itself.
ApiResponses == {"ok", "okBadBody", "unauthorized", "httpError", "network"}

\* A mutant of Rethrown: a request that failed on the network is sent again.
RethrownUnlessNetwork(resp) == resp # "network"

\* apiRequest / apiDownloadFile: the catch block throws every error on.
Rethrown(resp) == TRUE

\* A mutant of ApiOutcome: a 401 is handled like any other response body.
ApiOutcomeReadsUnauthorized(fn, resp) ==
    IF resp \in {"network", "httpError"}
    THEN [settled |-> "rejected", error |-> "http", data |-> "none"]
    ELSE [settled |-> "resolved", error |-> "none", data |-> "json"]

\* How a call through client function fn ends on response resp: apiRequest
\* throws on a 401 and on a rejected fetch, handleResponse throws on a status
\* that is not ok and returns null for a body that does not parse;
\* apiDownloadFile throws on all of these.
ApiOutcome(fn, resp) ==
    CASE resp = "network" ->
             [settled |-> "rejected", error |-> "network", data |-> "none"]
      [] resp = "unauthorized" ->
             [settled |-> "rejected", error |-> "auth", data |-> "none"]
      [] resp = "httpError" ->
             [settled |-> "rejected", error |-> "http", data |-> "none"]
      [] resp = "okBadBody" ->
             IF fn = "apiDownloadFile"
             THEN [settled |-> "rejected", error |-> "body", data |-> "none"]
             ELSE [settled |-> "resolved", error |-> "none", data |-> "null"]
      [] OTHER ->
             [settled |-> "resolved", error |-> "none",
              data |-> IF fn = "apiDownloadFile" THEN "blob" ELSE "json"]

FreeApiSlots == {c \in ApiSlots : apiCalls[c] = NoCall}

\* A partsApi function is called; it runs up to its fetch().  prepOk is FALSE
\* when getHeaders throws on a malformed cookie: no request leaves.
ApiCall(op, prepOk) ==
    /\ FreeApiSlots # {}
    /\ LET c == CHOOSE f \in FreeApiSlots : \A g \in FreeApiSlots : f <= g
       IN  IF prepOk
           THEN /\ apiCalls' = [apiCalls EXCEPT ![c] = [op |-> op, requests |-> 1]]
                /\ lastApi' = NoApi
           ELSE /\ lastApi' = [op |-> op, resp |-> "none", settled |-> "rejected",
                               error |-> "prep", data |-> "none", requests |-> 0]
                /\ UNCHANGED apiCalls
    /\ UNCHANGED <<exceptApi, authModalShown>>

\* The fetch() of call c settles and the call runs to its end.
ApiResponse(c, resp) ==
    /\ apiCalls[c] # NoCall
    /\ IF resp \notin {"ok", "okBadBody"} /\ ~Rethrown(resp)
       THEN /\ apiCalls' = [apiCalls EXCEPT ![c].requests = @ + 1]
            /\ lastApi' = NoApi
            /\ UNCHANGED authModalShown
       ELSE LET out == ApiOutcome(ClientFn(apiCalls[c].op), resp)
            IN  /\ apiCalls' = [apiCalls EXCEPT ![c] = NoCall]
                /\ lastApi' = [op |-> apiCalls[c].op, resp |-> resp,
                               settled |-> out.settled, error |-> out.error,
                               data |-> out.data,
                               requests |-> apiCalls[c].requests]
                /\ authModalShown' = (authModalShown \/ resp = "unauthorized")
    /\ UNCHANGED exceptApi

\* hideAuthModal()
HideAuthModal ==
    /\ authModalShown
    /\ authModalShown' = FALSE
    /\ lastApi' = NoApi
    /\ UNCHANGED <<exceptApi, apiCalls>>

NextApi ==
    \/ \E op \in ApiOps, prepOk \in BOOLEAN : ApiCall(op, prepOk)
    \/ \E c \in ApiSlots, resp \in ApiResponses : ApiResponse(c, resp)
    \/ HideAuthModal

InitApi == Init /\ requestFn = "model"

SpecApi == InitApi /\ [][NextApi]_vars

\* ------------------------------------------------------- sorting and the tabs
\* A string is the sequence of its UTF-16 code units.  A part is
\* [id, name, amount, status]: name a string, amount a number, status one of
\* the status names.

\* String.prototype.toLowerCase(), on the letters A-Z
ToLowerCase(str) ==
    [i \in 1..Len(str) |-> IF str[i] \in 65..90 THEN str[i] + 32 ELSE str[i]]

\* a < b on strings: by code units, a proper prefix first
RECURSIVE StrLess(_, _)
StrLess(a, b) ==
    IF b = <<>> THEN FALSE
    ELSE IF a = <<>> THEN TRUE
    ELSE IF a[1] # b[1] THEN a[1] < b[1]
    ELSE StrLess(Tail(a), Tail(b))

\* Number.prototype.toString(), on a natural number
RECURSIVE NumberToString(_)
NumberToString(n) ==
    IF n < 10 THEN <<48 + n>>
    ELSE NumberToString(n \div 10) \o <<48 + (n % 10)>>

\* The parts the server may hand out: names b, A, ab, B; amounts 9, 10, 10, 2.
PartPool ==
    {[id |-> 1, name |-> <<98>>, amount |-> 9, status |-> "Reviewed"],
     [id |-> 2, name |-> <<65>>, amount |-> 10, status |-> "In Progress"],
     [id |-> 3, name |-> <<97, 98>>, amount |-> 10, status |-> "Pending"],
     [id |-> 4, name |-> <<66>>, amount |-> 2, status |-> "Already Started"]}

\* The lists of MaxParts different parts.
PartLists ==
    {l \in [1..MaxParts -> PartPool] :
        \A i, j \in 1..MaxParts : i # j => l[i] # l[j]}

SortKeys == {"name", "amount"}

\* getSortValue(part, key): a number for amount, a string otherwise
GetSortValue(part, key) ==
    IF key = "amount"
    THEN [isNumber |-> TRUE, n |-> part.amount, str |-> <<>>]
    ELSE [isNumber |-> FALSE, n |-> 0, str |-> part.name]

\* The comparator of sortParts
SortPartsCompare(a, b, key, direction) ==
    LET valA == GetSortValue(a, key)
        valB == GetSortValue(b, key)
    IN  IF valA.isNumber /\ valB.isNumber
        THEN (valA.n - valB.n) * direction
        ELSE IF StrLess(ToLowerCase(valA.str), ToLowerCase(valB.str))
        THEN -1 * direction
        ELSE IF StrLess(ToLowerCase(valB.str), ToLowerCase(valA.str))
        THEN 1 * direction
        ELSE 0

\* (a[key] || "").toString() in sortArrayByKey
KeyString(part, key) ==
    IF key = "amount"
    THEN IF part.amount = 0 THEN <<>> ELSE NumberToString(part.amount)
    ELSE part.name

\* The comparator of sortArrayByKey
SortArrayByKeyCompare(a, b, key, direction) ==
    LET valA == ToLowerCase(KeyString(a, key))
        valB == ToLowerCase(KeyString(b, key))
    IN  IF StrLess(valA, valB) THEN -1 * direction
        ELSE IF StrLess(valB, valA) THEN 1 * direction
        ELSE 0

\* getPriority(status) in prioritizeParts
GetPriority(status) ==
    IF status = "In Progress" \/ status = "Already Started" THEN 1
    ELSE IF status = "Reviewed" THEN 2
    ELSE 3

\* The comparator a sort of the given kind uses.
Compare(kind, key, direction, a, b) ==
    CASE kind = "sortParts" -> SortPartsCompare(a, b, key, direction)
      [] kind = "sortArrayByKey" -> SortArrayByKeyCompare(a, b, key, direction)
      [] OTHER -> GetPriority(a.status) - GetPriority(b.status)

\* Array.prototype.sort is stable: x goes behind the elements it does not
\* precede.
RECURSIVE InsertStable(_, _, _, _, _)
InsertStable(sorted, x, kind, key, direction) ==
    IF sorted = <<>> THEN <<x>>
    ELSE IF Compare(kind, key, direction, x, Head(sorted)) < 0
    THEN <<x>> \o sorted
    ELSE <<Head(sorted)>> \o InsertStable(Tail(sorted), x, kind, key, direction)

RECURSIVE ArraySort(_, _, _, _)
ArraySort(arr, kind, key, direction) ==
    IF arr = <<>> THEN <<>>
    ELSE InsertStable(ArraySort(SubSeq(arr, 1, Len(arr) - 1), kind, key, direction),
                      arr[Len(arr)], kind, key, direction)

\* "abc".includes(sub)
Includes(str, sub) ==
    \E i \in 0..(Len(str) - Len(sub)) : SubSeq(str, i + 1, i + Len(sub)) = sub

\* A field of a part as filterParts reads it: undefined, a string or a number.
NoField == [type |-> "undefined", str |-> <<>>]

StringField(str) == [type |-> "string", str |-> str]

NumberField == [type |-> "number", str |-> <<>>]

\* part.field?.toLowerCase().includes(lowerQuery): "throw" is the TypeError
\* of calling toLowerCase on a number.
FieldIncludes(field, lowerQuery) ==
    CASE field.type = "undefined" -> "no"
      [] field.type = "number" -> "throw"
      [] OTHER -> IF Includes(ToLowerCase(field.str), lowerQuery)
                  THEN "yes" ELSE "no"

\* The fields the filter callback reads, in the order of its || chain.
FilterFields == <<"name", "id", "notes", "subsystem", "assigned", "status">>

\* a || b || ... over the fields from the i-th on
RECURSIVE FilterChain(_, _, _)
FilterChain(part, lowerQuery, i) ==
    IF i > Len(FilterFields) THEN "no"
    ELSE LET r == FieldIncludes(part[FilterFields[i]], lowerQuery)
         IN  IF r = "no" THEN FilterChain(part, lowerQuery, i + 1) ELSE r

\* filterParts(list, searchQuery): [threw, list]
FilterParts(list, query) ==
    IF query = <<>> THEN [threw |-> FALSE, list |-> list]
    ELSE LET lowerQuery == ToLowerCase(query)
             reached(i) == \A j \in 1..(i - 1) :
                               FilterChain(list[j], lowerQuery, 1) # "throw"
         IN  IF \E i \in 1..Len(list) :
                    reached(i) /\ FilterChain(list[i], lowerQuery, 1) = "throw"
             THEN [threw |-> TRUE, list |-> <<>>]
             ELSE [threw |-> FALSE,
                   list |-> SelectSeq(list,
                       LAMBDA part : FilterChain(part, lowerQuery, 1) = "yes")]

\* A mutant of UpdateSortState: descending goes back to ascending.
UpdateSortStateNoOff(current, key) ==
    IF current.key = key /\ current.direction = 1
    THEN [key |-> key, direction |-> -1]
    ELSE [key |-> key, direction |-> 1]

\* updateSortState(category, key): the new { key, direction }
UpdateSortState(current, key) ==
    IF current.key = key
    THEN IF current.direction = 1 THEN [key |-> key, direction |-> -1]
         ELSE IF current.direction = -1 THEN [key |-> "null", direction |-> 1]
         ELSE [key |-> key, direction |-> 1]
    ELSE [key |-> key, direction |-> 1]

\* sortParts(category, key, direction): appState.parts[category] afterwards
SortParts(list, key, direction) ==
    IF key = "null" THEN list ELSE ArraySort(list, "sortParts", key, direction)

\* A mutant of PrioritizeParts: the array is sorted where it is.
PrioritizePartsInPlace(list) ==
    [stored |-> ArraySort(list, "priority", "null", 1),
     result |-> ArraySort(list, "priority", "null", 1)]

\* prioritizeParts(parts): the array it was given, as it leaves it, and the
\* sorted clone it returns
PrioritizeParts(list) ==
    [stored |-> list, result |-> ArraySort(list, "priority", "null", 1)]

\* applySorting(parts) in the CNC tab
ApplySorting(list, cncSort) ==
    IF cncSort.key = "null" THEN list
    ELSE ArraySort(list, "sortArrayByKey", cncSort.key, cncSort.direction)

\* A mutant of StatusButton: a Reviewed part is offered both actions.
StatusButtonBoth(status) ==
    IF status = "In Progress" \/ status = "Already Started"
    THEN {"markCompleted"}
    ELSE IF status = "Reviewed" THEN {"markInProgress", "markCompleted"}
    ELSE {}

\* buildActionButtons: statusButton, as the data-actions in its markup
StatusButton(status) ==
    LET inProgress == status = "In Progress" \/ status = "Already Started"
        reviewed == status = "Reviewed"
    IN  IF inProgress THEN {"markCompleted"}
        ELSE IF reviewed THEN {"markInProgress"}
        ELSE {}

\* buildActionButtons(part, index, showInfoEditButtons): the data-actions of
\* the buttons of a card
BuildActionButtons(part, showInfoEditButtons) ==
    StatusButton(part.status)
    \cup (IF "file" \in DOMAIN part THEN {"downloadStepFile"} ELSE {})
    \cup (IF showInfoEditButtons THEN {"viewPartInfo", "editPart"} ELSE {})
    \cup {"deletePart"}

\* renderCNC: renderPartCard for each part shown
RenderPartCards(shown) ==
    [i \in 1..Len(shown) |-> BuildActionButtons(shown[i], TRUE)]

\* Rendering the tab of a category, renderCNC for cnc and renderReview (and
\* the tabs like it) otherwise: the stored list afterwards and the parts
\* shown.  A filter that throws leaves the tab empty.
Render(cat, list, cncSort, query) ==
    IF cat = "cnc"
    THEN LET prioritized == PrioritizeParts(list)
             filtered == FilterParts(prioritized.result, query)
         IN  [stored |-> prioritized.stored,
              shown |-> IF filtered.threw THEN <<>>
                        ELSE ApplySorting(filtered.list, cncSort)]
    ELSE [stored |-> list, shown |-> FilterParts(list, query).list]

\* The list of the category a run does not look at.
OtherList ==
    <<[id |-> 5, name |-> <<98>>, amount |-> 1, status |-> "Pending"],
      [id |-> 6, name |-> <<65>>, amount |-> 2, status |-> "Completed"]>>

\* initializeState(): the parts arrive from the server and the tabs render.
LoadParts(focus, list) ==
    /\ \A cat \in Categories : parts[cat] = <<>>
    /\ LET loaded == [cat \in Categories |->
                          IF cat = focus THEN list ELSE OtherList]
           r == [cat \in Categories |->
                     Render(cat, loaded[cat], sortState["cnc"], searchQuery)]
       IN  /\ parts' = [cat \in Categories |-> r[cat].stored]
           /\ displayed' = [cat \in Categories |-> r[cat].shown]
           /\ cncActions' = RenderPartCards(r["cnc"].shown)
    /\ UNCHANGED <<exceptSort, sortState, sortDirection, searchQuery, sortLog>>

\* sortTable(category, key)
SortTable(cat, key) ==
    /\ parts[cat] # <<>>
    /\ LET new == UpdateSortState(sortState[cat], key)
           r == Render(cat, SortParts(parts[cat], new.key, new.direction),
                       IF cat = "cnc" THEN new ELSE sortState["cnc"], searchQuery)
       IN  /\ sortState' = [sortState EXCEPT ![cat] = new]
           /\ sortDirection' = new.direction
           /\ parts' = [parts EXCEPT ![cat] = r.stored]
           /\ displayed' = [displayed EXCEPT ![cat] = r.shown]
           /\ cncActions' = IF cat = "cnc" THEN RenderPartCards(r.shown)
                             ELSE cncActions
           /\ sortLog' =
                  IF new.key = key /\ new.direction = 1
                  THEN [category |-> cat, key |-> key, n |-> 1,
                        before |-> parts[cat]]
                  ELSE IF sortLog.category = cat /\ sortLog.key = key
                          /\ sortLog.n \in {1, 2}
                  THEN [sortLog EXCEPT !.n = @ + 1]
                  ELSE [category |-> cat, key |-> key, n |-> 0, before |-> <<>>]
    /\ UNCHANGED <<exceptSort, searchQuery>>

\* switchTab(tab): the tab renders again
RenderTab(cat) ==
    /\ parts[cat] # <<>>
    /\ LET r == Render(cat, parts[cat], sortState["cnc"], searchQuery)
       IN  /\ parts' = [parts EXCEPT ![cat] = r.stored]
           /\ displayed' = [displayed EXCEPT ![cat] = r.shown]
           /\ cncActions' = IF cat = "cnc" THEN RenderPartCards(r.shown)
                             ELSE cncActions
    /\ UNCHANGED <<exceptSort, sortState, sortDirection, searchQuery, sortLog>>

NextSort ==
    \/ \E focus \in Categories, list \in PartLists : LoadParts(focus, list)
    \/ \E cat \in Categories, key \in SortKeys : SortTable(cat, key)
    \/ \E cat \in Categories : RenderTab(cat)

InitSort == Init /\ requestFn = "model"

SpecSort == InitSort /\ [][NextSort]_vars

\* ------------------------------------------------- properties of BlobUrlCache

\* The entry whose key entered the Map first.
Oldest(c) == CHOOSE e \in {c[i] : i \in 1..Len(c)} :
                 \A i \in 1..Len(c) : e.ins <= c[i].ins

Kept(c, e) == \E j \in 1..Len(c) : c[j] = e

HasKey(c, k) == IndexOf(c, k) # 0

\* C4: after any sequence of set/get/has/revoke/clear calls the cache holds at
\* most maxSize entries.
C4_CacheBounded == Len(cache) <= maxSize

\* A set on a full cache has run and the cache is full again.
C4_Witness ==
    /\ lastOp.op = "set"
    /\ lastOp.pre = maxSize
    /\ Len(cache) = maxSize

\* What a set(k, url) step must have done, from the state before it to the
\* state after it.
SetEffect ==
    LET k   == lastOp'.key
        url == lastOp'.ret
    IN  /\ HasKey(cache', k)
        /\ cache'[IndexOf(cache', k)].url = url
        /\ IF Len(cache) >= maxSize
           THEN LET old == Oldest(cache)
                IN  /\ old.url \notin revoked
                    /\ revoked' = revoked \cup {old.url}
                    /\ old.key # k => ~HasKey(cache', old.key)
                    /\ \A i \in 1..Len(cache) :
                           (cache[i] # old /\ cache[i].key # k)
                               => Kept(cache', cache[i])
                    /\ Len(cache') = Len(cache) - 1
                           + (IF HasKey(cache, k) /\ old.key # k THEN 0 ELSE 1)
           ELSE /\ revoked' = revoked
                /\ \A i \in 1..Len(cache) :
                       cache[i].key # k => Kept(cache', cache[i])
                /\ Len(cache') = Len(cache)
                       + (IF HasKey(cache, k) THEN 0 ELSE 1)

\* C5: set(k, url) on a full cache removes exactly one entry, the one inserted
\* earliest, and revokes its URL and no other; below capacity it removes and
\* revokes nothing; either way k maps to url afterwards.
C5_SetEvictsOldest ==
    [][(lastOp'.op = "set" /\ urlCount' # urlCount) => SetEffect]_vars

\* The set that followed maxSize insertions has evicted the first of them.
C5_Witness ==
    /\ lastOp.op = "set"
    /\ lastOp.pre = maxSize
    /\ lastOp.ret = maxSize + 1
    /\ revoked = {1}
    /\ Len(cache) = maxSize

\* What a get(k) step must have done.
GetEffect ==
    LET k == lastOp'.key
        i == IndexOf(cache, k)
    IN  /\ (i # 0 /\ now - cache[i].timestamp > expiryMs) =>
               /\ lastOp'.ret = 0
               /\ ~HasKey(cache', k)
               /\ cache[i].url \in revoked'
        /\ (i # 0 /\ now - cache[i].timestamp <= expiryMs) =>
               /\ lastOp'.ret = cache[i].url
               /\ cache' = cache
               /\ revoked' = revoked
        /\ lastOp'.ret # 0 => lastOp'.ret \notin revoked'

\* C6: get(k) on an entry older than the TTL reports a miss, removes the entry
\* and revokes its URL; on an entry not older than the TTL it returns the stored
\* URL and changes nothing; no get returns a URL that has been revoked.
C6_GetExpiry ==
    [][(lastOp'.op = "get" /\ now' = now) => GetEffect]_vars

\* A get found the only entry expired and removed it.
C6_Witness ==
    /\ lastOp.op = "get"
    /\ lastOp.ret = 0
    /\ lastOp.pre = 1
    /\ cache = <<>>
    /\ revoked = {1}
    /\ now > StartNow + expiryMs

\* ---------------------------------------------- properties of the request layer

DedupFns == {"model", "view", "manifest"}

\* The promises whose fetch for (fn, key) has been issued and has not settled.
InFlightOf(ps, fn, key) ==
    {s \in Slots : /\ ps[s].fn = fn
                   /\ ps[s].key = key
                   /\ ps[s].fetched
                   /\ ps[s].state = "pending"}

\* The URL cached for k in cache c if its age at time t is within the TTL, else 0.
ValidEntryUrl(c, t, k) ==
    IF \E i \in 1..Len(c) : c[i].key = k /\ t - c[i].timestamp <= expiryMs
    THEN c[CHOOSE i \in 1..Len(c) : c[i].key = k].url
    ELSE 0

IsCall(r) == r.via \in {"cache", "joined", "new"}

\* C1: while a fetch for a key is in flight (and, for models, no valid cache
\* entry exists), every further call for that key gets the promise of that
\* fetch and starts no fetch of its own, so that one fetch serves all callers:
\* for getPartModelBlobUrl, getPartViewBlobUrl and getPartViewsManifest alike.
C1_Dedup ==
    [][/\ \A a, b \in Slots :
              (/\ a # b
               /\ promises'[a].fn \in DedupFns
               /\ promises'[b].fn = promises'[a].fn
               /\ promises'[a].key = promises'[b].key)
                  => ~(/\ promises'[a].fetched /\ promises'[a].state = "pending"
                       /\ promises'[b].fetched /\ promises'[b].state = "pending")
       /\ (/\ IsCall(lastResult')
           /\ lastResult'.fn \in DedupFns
           /\ InFlightOf(promises, lastResult'.fn, lastResult'.key) # {}
           /\ ~(/\ lastResult'.fn = "model"
                /\ ValidEntryUrl(cache, now, lastResult'.key) # 0))
              => /\ lastResult'.via = "joined"
                 /\ lastResult'.p \in
                        InFlightOf(promises, lastResult'.fn, lastResult'.key)
                 /\ promises' = promises]_vars

\* A second caller has been handed the promise of a model fetch in flight.
C1_Witness ==
    /\ lastResult.fn = "model"
    /\ lastResult.via = "joined"
    /\ promises[lastResult.p].fetched
    /\ promises[lastResult.p].state = "pending"
    /\ promises[lastResult.p].phase = "fetch"

\* C2: after a model request for key k has failed, at whatever point, k is in
\* neither the cache nor the pending map.
C2_FailedKeyAbsent ==
    (/\ lastResult.fn = "model"
     /\ \/ lastResult.via = "rejected"
        \/ lastResult.via = "new" /\ promises[lastResult.p].state # "pending")
        => /\ pendingModelRequests[lastResult.key] = 0
           /\ ~HasKey(cache, lastResult.key)

\* C3: a getPartModelBlobUrl(k) made while the cache holds an entry for k within
\* its TTL starts no request and returns the URL of that entry, which is the
\* URL the successful request resolved to and has not been revoked.
C3_CachedModelReused ==
    [][/\ (/\ IsCall(lastResult')
           /\ lastResult'.fn = "model"
           /\ ValidEntryUrl(cache, now, lastResult'.key) # 0)
              => /\ lastResult'.via = "cache"
                 /\ lastResult'.url = ValidEntryUrl(cache, now, lastResult'.key)
                 /\ lastResult'.url \notin revoked'
                 /\ promises' = promises
       /\ (lastResult'.fn = "model" /\ lastResult'.via = "resolved")
              => ValidEntryUrl(cache', now', lastResult'.key) = lastResult'.url]_vars

\* A call was answered from the cache with an entry exactly one TTL old.
C3_Witness ==
    /\ lastResult.fn = "model"
    /\ lastResult.via = "cache"
    /\ \E i \in 1..Len(cache) :
           /\ cache[i].key = lastResult.key
           /\ cache[i].url = lastResult.url
           /\ now - cache[i].timestamp = expiryMs

\* C7: once beforeunload has run the cache is empty and every blob URL created
\* for a model, a view image or a file preview has been revoked.
C7_TeardownReleasesAll ==
    torn => /\ cache = <<>>
            /\ \A u \in 1..urlCount : u \in revoked

\* ------------------------------------------------ properties of checkAuthStatus

Sent(c) == authCalls[c].sentAt > 0

\* C8: any two validation requests leave at least AUTH_CHECK_COOLDOWN apart.
C8_ValidationSpacing ==
    \A a, b \in AuthCallIds :
        (a # b /\ Sent(a) /\ Sent(b) /\ authCalls[a].sentAt <= authCalls[b].sentAt)
            => authCalls[b].sentAt - authCalls[a].sentAt >= AUTH_CHECK_COOLDOWN

\* C9 as stated: a call made within the cooldown is delayed, not dropped: it
\* eventually sends its validation request, and once resolved its value is
\* true exactly when that request succeeded.
C9_DelayedCallSends ==
    /\ \A c \in AuthCallIds : (authCalls[c].pc = "sleeping") ~> Sent(c)
    /\ [](\A c \in AuthCallIds :
             authCalls[c].pc = "done" =>
                 (authCalls[c].result <=> authCalls[c].outcome = "ok"))

\* C9 amended: a call made within the cooldown is delayed, not dropped: it
\* eventually reaches its validation call, which sends the request unless
\* preparing it throws; the call resolves to true exactly when a request was
\* sent and succeeded, and to false otherwise.
C9_DelayedCallProceeds ==
    /\ \A c \in AuthCallIds :
           (authCalls[c].pc = "sleeping") ~>
               (Sent(c) \/ (authCalls[c].pc = "done" /\ authCalls[c].outcome = "unsent"))
    /\ [](\A c \in AuthCallIds :
             authCalls[c].pc = "done" =>
                 (authCalls[c].result <=> (Sent(c) /\ authCalls[c].outcome = "ok")))

\* A delayed call has sent its request after its timer and resolved to true.
C9_Witness ==
    \E c \in AuthCallIds :
        /\ authCalls[c].delayed
        /\ authCalls[c].pc = "done"
        /\ authCalls[c].sentAt >= authCalls[c].wake
        /\ authCalls[c].result

\* ------------------------------------------------- properties of the wipe modal

\* C10: a wipe request is sent only when, since the modal was last opened, the
\* steps 1, 2, 3 have been shown in order, the confirmation input is exactly
\* "DELETE" and the password input is not empty, and the request carries that
\* password; any other Next or Enter sends nothing; every open shows step 1.
C10_WipeGuarded ==
    [][/\ wipeSent' # wipeSent
              => /\ modalOpen
                 /\ wipeStep = 3
                 /\ wipeTrail = <<1, 2, 3>>
                 /\ confirmValue = "DELETE"
                 /\ passwordValue # <<>>
                 /\ lastWipe'.password = passwordValue
       /\ keyupListeners' # keyupListeners
              => /\ modalOpen'
                 /\ wipeStep' = 1
                 /\ wipeTrail' = <<1>>]_vars

\* A wipe request has left from step 3 of the second opening of the modal.
C10_Witness ==
    /\ keyupListeners = 2
    /\ wipeSent > 0
    /\ wipePending > 0
    /\ wipeStep = 3
    /\ wipeTrail = <<1, 2, 3>>
    /\ confirmValue = "DELETE"
    /\ lastWipe.password = passwordValue
    /\ passwordValue # <<>>

\* ------------------------------------------------ properties of the API client

JustSettled == lastApi' # NoApi /\ lastApi' # lastApi

\* C11 as stated: every call of a state-mutating operation issues exactly one
\* HTTP request whatever the outcome; a failed request is a rejection.
C11_ExactlyOneRequest ==
    [][(JustSettled /\ lastApi'.op \in MutatingOps)
           => /\ lastApi'.requests = 1
              /\ lastApi'.resp \in {"network", "unauthorized", "httpError"}
                     => lastApi'.settled = "rejected"]_vars

\* C11 amended: a call of a state-mutating operation issues one HTTP request,
\* or none when preparing the request throws; a failure of either kind is a
\* rejection and no request is ever sent a second time.
C11_NeverResent ==
    [][/\ (JustSettled /\ lastApi'.op \in MutatingOps)
              => /\ lastApi'.requests = (IF lastApi'.error = "prep" THEN 0 ELSE 1)
                 /\ (lastApi'.error = "prep"
                        \/ lastApi'.resp \in {"network", "unauthorized", "httpError"})
                        => lastApi'.settled = "rejected"
       /\ \A c \in ApiSlots : apiCalls'[c].requests <= 1]_vars

\* A state-mutating call failed on the network after its one request.
C11_Witness ==
    /\ lastApi.op \in MutatingOps
    /\ lastApi.resp = "network"
    /\ lastApi.settled = "rejected"
    /\ lastApi.requests = 1

\* C18: a call through any apiClient function that receives a 401 opens the
\* authentication modal and rejects with an authentication error, and hands
\* no response data to its caller.
C18_UnauthorizedRejects ==
    [][(JustSettled /\ lastApi'.resp = "unauthorized")
           => /\ authModalShown'
              /\ lastApi'.settled = "rejected"
              /\ lastApi'.error = "auth"
              /\ lastApi'.data = "none"]_vars

\* A download received a 401, was rejected and the modal is shown.
C18_Witness ==
    /\ lastApi.op = "apiDownloadFile"
    /\ lastApi.resp = "unauthorized"
    /\ lastApi.settled = "rejected"
    /\ authModalShown

\* ------------------------------------------------------------- filterParts

\* Every field filterParts or the search documentation names.
PartFields ==
    {"name", "id", "notes", "subsystem", "assigned", "status", "material",
     "partId"}

\* A part with the given fields set and every other field undefined.
PartWith(fields) ==
    [f \in PartFields |-> IF f \in DOMAIN fields THEN fields[f] ELSE NoField]

\* The parts searched: one per field holding "aGe" in that field alone, one
\* holding "x" everywhere, and two with the numeric id the server assigns.
FilterPool ==
    {PartWith(f :> StringField(<<97, 71, 101>>)) : f \in PartFields}
    \cup {[f \in PartFields |-> StringField(<<120>>)],
          PartWith("name" :> StringField(<<120>>) @@ "id" :> NumberField),
          PartWith("name" :> StringField(<<97, 71, 101>>) @@ "id" :> NumberField)}

FilterLists ==
    UNION {[1..n -> FilterPool] : n \in 0..MaxFilterLen}

\* The search texts: "", "ge", "GE", "g", "q".
SearchQueries == {<<>>, <<103, 101>>, <<71, 69>>, <<103>>, <<113>>}

\* A tab calls filterParts(list, appState.searchQuery).
CallFilterParts(list, query) ==
    /\ filterArgs' = [list |-> list, searchQuery |-> query]
    /\ filterResult' = LET r == FilterParts(list, query)
                       IN  IF r.threw THEN "TypeError" ELSE r.list
    /\ UNCHANGED exceptFilter

NextFilter ==
    \E list \in FilterLists, query \in SearchQueries : CallFilterParts(list, query)

InitFilter == Init /\ requestFn = "model"

SpecFilter == InitFilter /\ [][NextFilter]_vars

\* ------------------------------------------------------------ validateFile

\* const ALLOWED_EXTENSIONS = ["step", "stp", "pdf"]
ALLOWED_EXTENSIONS ==
    {<<115, 116, 101, 112>>, <<115, 116, 112>>, <<112, 100, 102>>}

\* The positions of "." in a file name.
Dots(filename) == {i \in 1..Len(filename) : filename[i] = 46}

\* getFileExtension(filename): the last piece of filename.split("."), in
\* lower case; "" for an empty name and for a name without a dot
GetFileExtension(filename) ==
    IF filename = <<>> \/ Dots(filename) = {} THEN <<>>
    ELSE LET last == CHOOSE i \in Dots(filename) :
                         \A j \in Dots(filename) : j <= i
         IN  ToLowerCase(SubSeq(filename, last + 1, Len(filename)))

\* isFileExtensionAllowed(filename)
IsFileExtensionAllowed(filename) ==
    GetFileExtension(filename) \in ALLOWED_EXTENSIONS

\* isFileSizeAllowed(fileSize)
IsFileSizeAllowed(fileSize) == fileSize > 0 /\ fileSize <= MAX_FILE_SIZE

\* validateFile(file)
ValidateFile(file) ==
    IF ~file.given THEN [valid |-> FALSE, error |-> "No file provided"]
    ELSE IF ~IsFileExtensionAllowed(file.name)
    THEN [valid |-> FALSE, error |-> "Invalid file type"]
    ELSE IF ~IsFileSizeAllowed(file.size)
    THEN [valid |-> FALSE, error |-> "File too large"]
    ELSE [valid |-> TRUE, error |-> "null"]

\* File names: "", "a", "a.b", "pdf" followed by nothing, ".", ".pdf",
\* ".PDF", ".Step", ".stp", ".exe", ".pdfx" or ".pdf.exe".
FileNames ==
    {stem \o ext :
        stem \in {<<>>, <<97>>, <<97, 46, 98>>, <<112, 100, 102>>},
        ext \in {<<>>, <<46>>, <<46, 112, 100, 102>>, <<46, 80, 68, 70>>,
                 <<46, 83, 116, 101, 112>>, <<46, 115, 116, 112>>,
                 <<46, 101, 120, 101>>, <<46, 112, 100, 102, 120>>,
                 <<46, 112, 100, 102, 46, 101, 120, 101>>}}

FileSizes == {0, 1, MAX_FILE_SIZE - 1, MAX_FILE_SIZE, MAX_FILE_SIZE + 1}

Files ==
    {NoFile} \cup {[name |-> n, size |-> sz, given |-> TRUE] :
                       n \in FileNames, sz \in FileSizes}

\* A file is chosen for upload and validated.
CallValidateFile(file) ==
    /\ fileArg' = file
    /\ fileResult' = ValidateFile(file)
    /\ UNCHANGED exceptFile

NextFile == \E file \in Files : CallValidateFile(file)

InitFile == Init /\ requestFn = "model"

SpecFile == InitFile /\ [][NextFile]_vars

\* ----------------------------------------------------------------- backend

PartTypes == {"cnc", "hand"}

Users == {"alice", "bob"}

\* The table of validate_category_transition.
ValidTransitions ==
    [review |-> {"cnc", "hand", "completed"}, cnc |-> {"completed"},
     hand |-> {"completed"}, completed |-> {"cnc", "hand"}]

\* A mutant of ValidateCategoryTransition: the part's type is not looked at.
ValidateCategoryTransitionAnyType(current, new, partType) ==
    new \in ValidTransitions[current]

\* validate_category_transition(current_category, new_category, part_type):
\* a transition of the table, into cnc or hand only for a part of that type
ValidateCategoryTransition(current, new, partType) ==
    /\ new \in ValidTransitions[current]
    /\ new \in PartTypes => new = partType

\* A mutant of HandlePartAssignment: the claim date is not stamped.
HandlePartAssignmentNoDate(p, userName, utcnow) ==
    [p EXCEPT !.assigned = userName, !.status = "In Progress"]

\* handle_part_assignment(part, user_name)
HandlePartAssignment(p, userName, utcnow) ==
    [p EXCEPT !.assigned = userName, !.claimedDate = <<utcnow>>,
              !.status = "In Progress"]

\* One operation on the part at server time dbClock + 1: the part afterwards
\* (with updatedAt refreshed when it succeeded) and what is reported.
DbOp(op, target, error, new) ==
    /\ dbClock < MaxDbOps
    /\ dbClock' = dbClock + 1
    /\ lastDb' = [op |-> op, target |-> target, error |-> error,
                  was |-> dbPart.assigned]
    /\ dbPart' = IF error = "none" THEN [new EXCEPT !.updatedAt = <<dbClock'>>]
                 ELSE dbPart
    /\ UNCHANGED exceptDb

\* create(part_data): a part of the given type in (review, "Pending")
Create(partType) ==
    /\ ~dbPart.exists
    /\ DbOp("create", partType, "none",
            [exists |-> TRUE, type |-> partType, category |-> "review",
             status |-> "Pending", assigned |-> "null", claimedDate |-> <<>>,
             updatedAt |-> <<>>])

\* update_part(part_id) with the validated field assigned in the request, or
\* with other fields only (assigned = "keep")
UpdatePart(assigned) ==
    /\ dbPart.exists
    /\ DbOp("update", assigned, "none",
            IF assigned = "keep" THEN dbPart ELSE [dbPart EXCEPT !.assigned = assigned])

\* approve(id, target_category)
Approve(target) ==
    /\ dbPart.exists
    /\ DbOp("approve", target,
            IF /\ dbPart.category = "review"
               /\ ValidateCategoryTransition(dbPart.category, target, dbPart.type)
            THEN "none" ELSE "InvalidTransition",
            [dbPart EXCEPT !.category = target, !.status = "Reviewed"])

\* assign(id, user_name)
Assign(userName) ==
    /\ dbPart.exists
    /\ DbOp("assign", userName,
            IF dbPart.category = "completed" THEN "InvalidState" ELSE "none",
            HandlePartAssignment(dbPart, userName, dbClock + 1))

\* unclaim(id)
Unclaim ==
    /\ dbPart.exists
    /\ DbOp("unclaim", "none",
            IF dbPart.assigned = "null" THEN "InvalidState" ELSE "none",
            [dbPart EXCEPT !.assigned = "null", !.claimedDate = <<>>,
                         !.status = IF @ = "In Progress" THEN "Reviewed" ELSE @])

\* markInProgress(id)
MarkInProgress ==
    /\ dbPart.exists
    /\ DbOp("markInProgress", "none",
            IF dbPart.status = "Reviewed" /\ dbPart.category \in PartTypes
            THEN "none" ELSE "InvalidTransition",
            [dbPart EXCEPT !.status = "In Progress"])

\* complete(id)
Complete ==
    /\ dbPart.exists
    /\ DbOp("complete", "none",
            IF dbPart.category \in PartTypes THEN "none" ELSE "InvalidTransition",
            [dbPart EXCEPT !.category = "completed", !.status = "Completed"])

\* A mutant of Revert: the current category is not looked at.
RevertAnyCategory(target) ==
    /\ dbPart.exists
    /\ DbOp("revert", target,
            IF target = dbPart.type THEN "none" ELSE "InvalidTransition",
            [dbPart EXCEPT !.category = target, !.status = "In Progress"])

\* revert(id, target_category)
Revert(target) ==
    /\ dbPart.exists
    /\ DbOp("revert", target,
            IF /\ dbPart.category = "completed"
               /\ ValidateCategoryTransition(dbPart.category, target, dbPart.type)
            THEN "none" ELSE "InvalidTransition",
            [dbPart EXCEPT !.category = target, !.status = "In Progress"])

NextDb ==
    \/ \E partType \in PartTypes : Create(partType)
    \/ \E assigned \in Users \cup {"keep"} : UpdatePart(assigned)
    \/ \E target \in PartTypes : Approve(target)
    \/ \E userName \in Users : Assign(userName)
    \/ Unclaim
    \/ MarkInProgress
    \/ Complete
    \/ \E target \in PartTypes : Revert(target)

InitDb == Init /\ requestFn = "model"

SpecDb == InitDb /\ [][NextDb]_vars

\* ------------------------------------------------- events reaching the tabs

\* A tab button calls switchTab(tab); the page takes input once the
\* DOMContentLoaded listener has detected the device.
SwitchTab(tab) ==
    /\ startup # "loading"
    /\ SwitchTabFrom("switchTab", tab, isMobile, isAuthenticated, FALSE)
    /\ UNCHANGED <<exceptTabs, isMobile, isAuthenticated, authConfirmed, startup>>

\* The tabs whose content attachSwipeHandlers listens on
SwipeTargets == {"hand", "completed"}

\* A swipe ends on the content of the tab shown: onTouchEnd,
\* handleSwipeDirection.
Swipe(direction) ==
    LET order == GetAllowedTabs(isMobile)
        currentIndex == TabIndexOf(order, currentTab)
        nextIndex == currentIndex + direction
    IN  /\ startup # "loading"
        /\ currentTab \in SwipeTargets
        /\ IF isMobile /\ currentIndex # 0 /\ nextIndex >= 1
              /\ nextIndex <= Len(order)
           THEN SwitchTabFrom("swipe", order[nextIndex], isMobile,
                              isAuthenticated, FALSE)
           ELSE /\ lastTab' = [event |-> "swipe", tab |-> "none",
                               from |-> currentTab, load |-> "none",
                               init |-> FALSE]
                /\ UNCHANGED <<currentTab, savedTab, tabSwitched>>
        /\ UNCHANGED <<exceptTabs, isMobile, isAuthenticated, authConfirmed,
                       startup>>

\* The resize listener; detectMobileDevice() finds the device mode given.
Resize(mobile) ==
    LET modeChanged == isMobile # mobile
        tab == IF /\ modeChanged
                  /\ ~mobile
                  /\ currentTab \notin {"review", "cnc", "hand", "completed"}
               THEN "review" ELSE currentTab
    IN  /\ startup # "loading"
        /\ isMobile' = mobile
        /\ SwitchTabFrom("resize", tab, mobile, isAuthenticated, FALSE)
        /\ UNCHANGED <<exceptTabs, isAuthenticated, authConfirmed, startup>>

\* The DOMContentLoaded listener up to await checkAuthentication().
DomContentLoaded(mobile) ==
    /\ startup = "loading"
    /\ startup' = "checking"
    /\ isMobile' = mobile
    /\ lastTab' = [event |-> "startup", tab |-> "none", from |-> currentTab,
                   load |-> "none", init |-> FALSE]
    /\ UNCHANGED <<exceptTabs, currentTab, savedTab, isAuthenticated,
                   authConfirmed, tabSwitched>>

\* checkAuthentication() resolves and the DOMContentLoaded listener ends.
CheckAuthenticationResolved(ok) ==
    /\ startup = "checking"
    /\ startup' = "done"
    /\ IF ok
       THEN /\ isAuthenticated' = TRUE
            /\ authConfirmed' = TRUE
            /\ SwitchTabFrom("startup", currentTab, isMobile, TRUE, TRUE)
       ELSE /\ lastTab' = [event |-> "startup", tab |-> "none",
                           from |-> currentTab, load |-> "none", init |-> FALSE]
            /\ UNCHANGED <<currentTab, savedTab, tabSwitched, isAuthenticated,
                           authConfirmed>>
    /\ UNCHANGED <<exceptTabs, isMobile>>

\* The "authenticated" listener, after a login in the auth modal.
Authenticated(mobile) ==
    /\ startup = "done"
    /\ isAuthenticated' = TRUE
    /\ authConfirmed' = TRUE
    /\ isMobile' = mobile
    /\ SwitchTabFrom("authenticated", currentTab, mobile, TRUE, TRUE)
    /\ UNCHANGED <<exceptTabs, startup>>

NextTabs ==
    \/ \E tab \in {DESKTOP_TABS[i] : i \in 1..Len(DESKTOP_TABS)} \cup {"settings"} :
           SwitchTab(tab)
    \/ \E direction \in {-1, 1} : Swipe(direction)
    \/ \E mobile \in BOOLEAN : Resize(mobile)
    \/ \E mobile \in BOOLEAN : DomContentLoaded(mobile)
    \/ \E ok \in BOOLEAN : CheckAuthenticationResolved(ok)
    \/ \E mobile \in BOOLEAN : Authenticated(mobile)

InitTabs == Init /\ requestFn = "model"

SpecTabs == InitTabs /\ [][NextTabs]_vars

\* ------------------------------------------------------- debounced search

\* The clock of the search box advances by half the debounce delay.
SearchTickStep == SEARCH_DEBOUNCE_MS \div 2

\* The texts typed into the search box.
TypedQueries == {<<>>, <<97>>}

\* The tabs whose renderer the debounce callback imports before calling it
LazyTabs == {"cnc", "misc"}

\* The tabs the debounce callback renders
RenderedTabs == {"review", "cnc", "hand", "misc", "completed"}

\* handleSearch(query) with a string: setSearchQuery, clearTimeout of the
\* timer searchDebounceTimer names if it is not null, setTimeout.
HandleSearch(query) ==
    /\ timersMade < MaxSearchCalls
    /\ searchQuery' = query
    /\ timersMade' = timersMade + 1
    /\ timers' = {t \in timers : searchDebounceTimer = 0 \/ t.id # searchDebounceTimer}
                     \cup {[id |-> timersMade + 1,
                            due |-> searchClock + SEARCH_DEBOUNCE_MS]}
    /\ searchDebounceTimer' = timersMade + 1
    /\ lastSearch' = [query |-> query, at |-> searchClock]
    /\ UNCHANGED <<exceptDebounce, searchClock, awaitingImport, searchRenders>>

\* A timer is due and its callback runs with the tab given shown: up to the
\* await for cnc and misc, to its end for the other tabs.
TimerFires(id, tab) ==
    /\ \E t \in timers : t.id = id /\ t.due <= searchClock
    /\ timers' = {t \in timers : t.id # id}
    /\ IF tab \in LazyTabs
       THEN /\ awaitingImport' = awaitingImport \cup {id}
            /\ UNCHANGED <<searchDebounceTimer, searchRenders>>
       ELSE /\ searchRenders' =
                   IF tab \in RenderedTabs THEN searchRenders + 1
                   ELSE searchRenders
            /\ searchDebounceTimer' = 0
            /\ UNCHANGED awaitingImport
    /\ UNCHANGED <<exceptDebounce, searchQuery, searchClock, timersMade,
                   lastSearch>>

\* The import a debounce callback awaits resolves: the callback renders the
\* tab and sets searchDebounceTimer to null.
ImportResolved(id) ==
    /\ id \in awaitingImport
    /\ awaitingImport' = awaitingImport \ {id}
    /\ searchRenders' = searchRenders + 1
    /\ searchDebounceTimer' = 0
    /\ UNCHANGED <<exceptDebounce, searchQuery, searchClock, timers,
                   timersMade, lastSearch>>

\* Time passes; a timer that is due fires before more time passes.
SearchTick ==
    /\ searchClock < MaxSearchTicks * SearchTickStep
    /\ \A t \in timers : t.due > searchClock
    /\ searchClock' = searchClock + SearchTickStep
    /\ UNCHANGED <<exceptDebounce, searchQuery, searchDebounceTimer, timers,
                   awaitingImport, timersMade, searchRenders, lastSearch>>

NextDebounce ==
    \/ \E query \in TypedQueries : HandleSearch(query)
    \/ \E id \in 1..MaxSearchCalls :
           \E tab \in {DESKTOP_TABS[i] : i \in 1..Len(DESKTOP_TABS)} :
               TimerFires(id, tab)
    \/ \E id \in 1..MaxSearchCalls : ImportResolved(id)
    \/ SearchTick

InitDebounce == Init /\ requestFn = "model"

SpecDebounce == InitDebounce /\ [][NextDebounce]_vars

\* ------------------------------------------------------- request headers

\* The API keys in use; "" is a cookie with an empty value.
ApiKeyValues == {"", "k1", "k2"}

\* JavaScript's falsy values among the keys
Falsy(k) == k \in {"null", ""}

\* No headers: {} in getHeaders, and options.headers || {} in apiRequest
NoHeaders == [name \in {} |-> ""]

\* { ...a, ...b }
Spread(a, b) ==
    [name \in DOMAIN a \cup DOMAIN b |->
        IF name \in DOMAIN b THEN b[name] ELSE a[name]]

\* getHeaders(includeContentType, overrideApiKey) with the cookie's key
GetHeaders(includeContentType, overrideApiKey, cookie) ==
    LET apiKey == IF Falsy(overrideApiKey) THEN cookie ELSE overrideApiKey
        content == IF includeContentType
                   THEN [name \in {"Content-Type"} |-> "application/json"]
                   ELSE NoHeaders
        auth == IF Falsy(apiKey) THEN NoHeaders
                ELSE [name \in {"X-API-Key"} |-> apiKey]
    IN  Spread(content, auth)

\* apiRequest: mergedHeaders, for the headers of its options
MergedHeaders(optionHeaders, overrideApiKey, cookie) ==
    Spread(GetHeaders(TRUE, overrideApiKey, cookie), optionHeaders)

\* apiRequest(endpoint, options, overrideApiKey) up to its call of fetch
ApiRequest(wrapper, method, optionHeaders, overrideApiKey) ==
    /\ lastRequest' =
           [wrapper |-> wrapper, cookie |-> apiKeyCookie,
            override |-> overrideApiKey, method |-> method,
            sent |-> MergedHeaders(optionHeaders, overrideApiKey, apiKeyCookie)]
    /\ UNCHANGED <<exceptHeaders, apiKeyCookie>>

ApiGetRequest(overrideApiKey) ==
    ApiRequest("apiGet", "GET", NoHeaders, overrideApiKey)

ApiPostRequest(overrideApiKey) ==
    ApiRequest("apiPost", "POST", NoHeaders, overrideApiKey)

ApiPutRequest(overrideApiKey) ==
    ApiRequest("apiPut", "PUT", NoHeaders, overrideApiKey)

ApiDeleteRequest(overrideApiKey) ==
    ApiRequest("apiDelete", "DELETE", NoHeaders, overrideApiKey)

\* apiPostMultipart(endpoint, formData): headers: getHeaders(false)
ApiPostMultipartRequest ==
    ApiRequest("apiPostMultipart", "POST",
               GetHeaders(FALSE, "null", apiKeyCookie), "null")

\* setApiKeyCookie(apiKey), or the cookie expires or is cleared
SetApiKeyCookie(apiKey) ==
    /\ apiKeyCookie' = apiKey
    /\ UNCHANGED <<exceptHeaders, lastRequest>>

NextHeaders ==
    \/ \E k \in ApiKeyValues \cup {"null"} : ApiGetRequest(k)
    \/ \E k \in ApiKeyValues \cup {"null"} : ApiPostRequest(k)
    \/ \E k \in ApiKeyValues \cup {"null"} : ApiPutRequest(k)
    \/ \E k \in ApiKeyValues \cup {"null"} : ApiDeleteRequest(k)
    \/ ApiPostMultipartRequest
    \/ \E k \in ApiKeyValues \cup {"null"} : SetApiKeyCookie(k)

InitHeaders == Init /\ requestFn = "model"

SpecHeaders == InitHeaders /\ [][NextHeaders]_vars

\* ------------------------------------------------------- withErrorHandling

\* The elements a call may name as loading targets
Elements == {"submit", "cancel"}

\* The options given to withErrorHandling
HandlingOptions ==
    [onError : {"none", "fn", "throws"},
     onSuccess : {"none", "fn", "throws"},
     onFinally : {"none", "fn"},
     loadingTargets : SUBSET Elements,
     showNotification : BOOLEAN]

\* toggleDisabled(targets, disabled), on the set of disabled elements
ToggleDisabled(els, targets, disabled) ==
    IF disabled THEN els \cup targets ELSE els \ targets

\* A mutant of CatchBlock: the notification is shown whatever
\* showNotification says.
CatchBlockAlwaysNotifies(o) ==
    IF o.onError # "none" THEN <<"onError">> ELSE <<"showErrorNotification">>

\* The catch block, up to its throw
CatchBlock(o) ==
    IF o.onError # "none" THEN <<"onError">>
    ELSE IF o.showNotification THEN <<"showErrorNotification">>
    ELSE <<>>

\* The finally block
FinallyBlock(o) ==
    <<"toggleDisabled(false)">>
        \o (IF o.onFinally # "none" THEN <<"onFinally">> ELSE <<>>)

\* What withErrorHandling calls after await asyncFn() resolved (ok) or
\* rejected: an exception of onSuccess is caught by the same catch block.
AfterAwait(o, ok) ==
    (IF ok /\ o.onSuccess # "none" THEN <<"onSuccess">> ELSE <<>>)
        \o (IF ~ok \/ o.onSuccess = "throws" THEN CatchBlock(o) ELSE <<>>)
        \o FinallyBlock(o)

\* What the promise of withErrorHandling settles with: the operation's
\* result, or the error thrown last
Settled(o, ok) ==
    IF ok /\ o.onSuccess # "throws" THEN "result"
    ELSE IF o.onError = "throws" THEN "onErrorError"
    ELSE IF ok THEN "onSuccessError"
    ELSE "operationError"

\* withErrorHandling(asyncFn, options) up to await asyncFn()
WithErrorHandling(o) ==
    /\ handling.phase # "pending"
    /\ disabledEls' = ToggleDisabled(disabledEls, o.loadingTargets, TRUE)
    /\ handling' = [phase |-> "pending", options |-> o,
                    log |-> <<"toggleDisabled(true)", "asyncFn">>,
                    outcome |-> "none"]
    /\ UNCHANGED exceptHandling

\* asyncFn() resolves or rejects and withErrorHandling runs to its end
OperationSettles(ok) ==
    /\ handling.phase = "pending"
    /\ disabledEls' =
           ToggleDisabled(disabledEls, handling.options.loadingTargets, FALSE)
    /\ handling' = [handling EXCEPT
                        !.phase = "done",
                        !.log = @ \o AfterAwait(handling.options, ok),
                        !.outcome = Settled(handling.options, ok)]
    /\ UNCHANGED exceptHandling

NextHandling ==
    \/ \E o \in HandlingOptions : WithErrorHandling(o)
    \/ \E ok \in BOOLEAN : OperationSettles(ok)

InitHandling == Init /\ requestFn = "model"

SpecHandling == InitHandling /\ [][NextHandling]_vars

\* ------------------------------------------------------- properties of sorting

\* C12: selecting the key a category is sorted by takes it from ascending to
\* descending and from descending to unsorted; selecting any other key, or a
\* key while unsorted, gives ascending on that key; the sort state of every
\* other category stays as it was.
C12_SortCycle ==
    [][sortState' # sortState =>
           LET cat == sortLog'.category
               key == sortLog'.key
               old == sortState[cat]
               new == sortState'[cat]
           IN  /\ (old.key = key /\ old.direction = 1)
                      => new = [key |-> key, direction |-> -1]
               /\ (old.key = key /\ old.direction = -1)
                      => new = [key |-> "null", direction |-> 1]
               /\ old.key # key => new = [key |-> key, direction |-> 1]
               /\ \A other \in Categories \ {cat} :
                      sortState'[other] = sortState[other]]_vars

\* One key was selected three times in a row on a category whose other
\* category is sorted: ascending, descending, unsorted.
C12_Witness ==
    /\ sortLog.n = 3
    /\ sortState[sortLog.category] = NoSort
    /\ \E other \in Categories \ {sortLog.category} :
           sortState[other] = [key |-> "amount", direction |-> -1]

\* C13: after three selections in a row of one key on a category (ascending,
\* descending, unsorted) the category's list is in the order it had before
\* the first of them.
C13_UnsortedRestoresOrder ==
    sortLog.n = 3 => /\ parts[sortLog.category] = sortLog.before
                     /\ sortLog.category # "cnc"
                            => displayed[sortLog.category] = sortLog.before

\* The order the claim gives for a key: numbers for amount, lower-cased
\* strings otherwise.
InKeyOrder(a, b, key, direction) ==
    LET le(x, y) == IF key = "amount" THEN x.amount <= y.amount
                    ELSE ~StrLess(ToLowerCase(y.name), ToLowerCase(x.name))
    IN  IF direction = 1 THEN le(a, b) ELSE le(b, a)

\* C14: the list a tab shows while its category is sorted by a key is in the
\* order of that key: numeric for amount, case-insensitive lexicographic
\* otherwise, reversed for descending.
C14_DisplayedInKeyOrder ==
    \A cat \in Categories :
        sortState[cat].key # "null" =>
            \A i, j \in 1..Len(displayed[cat]) :
                i < j => InKeyOrder(displayed[cat][i], displayed[cat][j],
                                    sortState[cat].key, sortState[cat].direction)

\* The parts of a list with priority p, in the order of the list.
Group(list, p) == SelectSeq(list, LAMBDA part : GetPriority(part.status) = p)

\* C15: while the CNC tab has no sort key it lists the In Progress and
\* Already Started parts, then the Reviewed ones, then the others, each group
\* in stored order; only loading and sortParts change the stored list.
C15_CncPriority ==
    /\ [](sortState["cnc"].key = "null"
              => displayed["cnc"] = Group(parts["cnc"], 1)
                     \o Group(parts["cnc"], 2) \o Group(parts["cnc"], 3))
    /\ [][parts'["cnc"] # parts["cnc"]
              => \/ parts["cnc"] = <<>> /\ parts'["cnc"] \in PartLists \cup {OtherList}
                 \/ /\ sortState'["cnc"].key # "null"
                    /\ parts'["cnc"] = SortParts(parts["cnc"], sortState'["cnc"].key,
                                                 sortState'["cnc"].direction)]_vars

\* The CNC tab, unsorted, shows a stored list that is not in priority order:
\* a Reviewed part stored first, then an Already Started and an In Progress
\* one, which are shown before it in their stored order.
C15_Witness ==
    /\ sortState["cnc"].key = "null"
    /\ Len(parts["cnc"]) >= 3
    /\ parts["cnc"][1].status = "Reviewed"
    /\ parts["cnc"][2].status = "Already Started"
    /\ parts["cnc"][3].status = "In Progress"
    /\ SubSeq(displayed["cnc"], 1, 2) = <<parts["cnc"][2], parts["cnc"][3]>>

\* ------------------------------------------------------ properties of search

\* The fields the search is documented to match against.
DocumentedFields ==
    {"name", "notes", "subsystem", "assigned", "status", "material", "partId"}

\* C16: for a non-empty search text the parts returned are exactly those with
\* one of name, notes, subsystem, assigned, status, material, partId holding
\* the text as a case-insensitive substring, in list order; for an empty text
\* the list itself is returned.
C16_ShownIffFieldContains ==
    filterArgs # NoFilterCall =>
        filterResult =
            IF filterArgs.searchQuery = <<>> THEN filterArgs.list
            ELSE SelectSeq(filterArgs.list,
                     LAMBDA part :
                         \E f \in DocumentedFields :
                             /\ part[f].type = "string"
                             /\ Includes(ToLowerCase(part[f].str),
                                         ToLowerCase(filterArgs.searchQuery)))

\* ----------------------------------------------------- properties of upload

\* The name ends, in any letter case, with a dot and an allowed extension.
HasAllowedExtension(filename) ==
    \E e \in ALLOWED_EXTENSIONS :
        /\ Len(filename) > Len(e)
        /\ ToLowerCase(SubSeq(filename, Len(filename) - Len(e),
                              Len(filename))) = <<46>> \o e

\* C17: a file is accepted iff its extension is step, stp or pdf in any
\* letter case and its size is at most 10 MiB; a file with another
\* extension gets the file-type error whatever its size, and the
\* file-too-large error is given only for a size above 10 MiB.
C17_AcceptIff ==
    fileArg.given =>
        /\ fileResult.valid <=> /\ HasAllowedExtension(fileArg.name)
                                /\ fileArg.size <= MAX_FILE_SIZE
        /\ ~HasAllowedExtension(fileArg.name)
               => fileResult.error = "Invalid file type"
        /\ fileResult.error = "File too large" => fileArg.size > MAX_FILE_SIZE

\* ------------------------------------------------- properties of the backend

\* C19: a stored part has a claim date exactly when it is assigned.
C19_ClaimedIffAssigned ==
    dbPart.exists => (dbPart.claimedDate # <<>> <=> dbPart.assigned # "null")

C23_StatusActions ==
    /\ Len(cncActions) = Len(displayed["cnc"])
    /\ \A i \in 1..Len(cncActions) :
           LET status == displayed["cnc"][i].status
           IN  /\ "markCompleted" \in cncActions[i]
                      <=> status \in {"In Progress", "Already Started"}
               /\ "markInProgress" \in cncActions[i] <=> status = "Reviewed"
               /\ ~({"markCompleted", "markInProgress"} \subseteq cncActions[i])

\* The CNC tab shows a Reviewed, an In Progress or Already Started and a
\* Pending part, offering them start, done and neither.
C23_Witness ==
    /\ \E i \in 1..Len(cncActions) :
           /\ displayed["cnc"][i].status = "Reviewed"
           /\ "markInProgress" \in cncActions[i]
    /\ \E i \in 1..Len(cncActions) :
           /\ displayed["cnc"][i].status \in {"In Progress", "Already Started"}
           /\ "markCompleted" \in cncActions[i]
    /\ \E i \in 1..Len(cncActions) :
           /\ displayed["cnc"][i].status = "Pending"
           /\ cncActions[i] \cap {"markCompleted", "markInProgress"} = {}

\* ------------------------------------------------------ properties of the tabs

C24_OneTimerPerBurst ==
    /\ lastSearch.at >= 0 => searchQuery = lastSearch.query
    /\ Cardinality(timers) <= 1
    /\ \A t \in timers : t.due = lastSearch.at + SEARCH_DEBOUNCE_MS

\* ------------------------------------------- properties of the request headers

\* The key a request has available: the override key, else the cookie's
AvailableKey(r) == IF Falsy(r.override) THEN r.cookie ELSE r.override

\* C26: a request of apiPostMultipart carries no Content-Type header of
\* application/json and carries the X-API-Key header when a key is
\* available; a request of apiPost or apiPut carries the Content-Type
\* header of application/json and the X-API-Key header when a key is
\* available.
C26_MultipartHeaders ==
    /\ lastRequest.wrapper = "apiPostMultipart"
           => /\ ~ /\ "Content-Type" \in DOMAIN lastRequest.sent
                   /\ lastRequest.sent["Content-Type"] = "application/json"
              /\ ~Falsy(AvailableKey(lastRequest))
                     => /\ "X-API-Key" \in DOMAIN lastRequest.sent
                        /\ lastRequest.sent["X-API-Key"] = AvailableKey(lastRequest)
    /\ lastRequest.wrapper \in {"apiPost", "apiPut"}
           => /\ "Content-Type" \in DOMAIN lastRequest.sent
              /\ lastRequest.sent["Content-Type"] = "application/json"
              /\ ~Falsy(AvailableKey(lastRequest))
                     => /\ "X-API-Key" \in DOMAIN lastRequest.sent
                        /\ lastRequest.sent["X-API-Key"] = AvailableKey(lastRequest)

\* ------------------------------------------- properties of the end of a wipe

\* f is called in the effects e, and g before f
CalledIn(e, f) == \E k \in 1..Len(e) : e[k] = f

CalledBefore(e, g, f) ==
    \E k, l \in 1..Len(e) : k < l /\ e[k] = g /\ e[l] = f

Calls(e, f) == Cardinality({k \in 1..Len(e) : e[k] = f})

\* The loading targets are disabled before the operation runs and are
\* enabled again, and onFinally is called once if given, when the call ends.
LoadingBracket ==
    /\ handling.phase # "idle"
           => /\ handling.log[1] = "toggleDisabled(true)"
              /\ handling.log[2] = "asyncFn"
    /\ handling.phase = "pending"
           => handling.options.loadingTargets \subseteq disabledEls
    /\ handling.phase = "done"
           => /\ disabledEls \cap handling.options.loadingTargets = {}
              /\ Calls(handling.log, "toggleDisabled(false)") = 1
              /\ Calls(handling.log, "onFinally") =
                     IF handling.options.onFinally # "none" THEN 1 ELSE 0

\* The success path: onSuccess called if given, and the result returned
SuccessPath ==
    /\ handling.options.onSuccess # "none"
           => Calls(handling.log, "onSuccess") = 1
    /\ handling.outcome = "result"

\* The error path: onError called, or a notification shown when no onError
\* is given, and the operation's error re-thrown
ErrorPath ==
    /\ IF handling.options.onError # "none"
       THEN Calls(handling.log, "onError") = 1
       ELSE Calls(handling.log, "showErrorNotification") = 1
    /\ handling.outcome = "operationError"

====
